---- MODULE Spec2Model ----
(***************************************************************************)
(* Server-Sent Events in drogon: the line/event decoder (SseEventParser),  *)
(* the client context that unwraps the HTTP framing (SseClientContext) and *)
(* the server-side writer (SseWriter).                                     *)
(*                                                                         *)
(* A std::string / MsgBuffer content is a sequence of one-character        *)
(* strings; LF, CR, SP and NUL name the bytes 0x0A, 0x0D, 0x20 and 0x00.   *)
(***************************************************************************)
EXTENDS Integers, Sequences, FiniteSets, TLC

VARIABLES
    \* --- SseWriter::formatEvent / SseEventParser round trip
    event,      \* the SseEvent handed to formatEvent
    message,    \* the bytes formatEvent returned
    decoded,    \* the events a fresh SseEventParser dispatched for message
    step,       \* "start" -> "formatted" -> "decoded"
    \* --- one SseEventParser fed through one MsgBuffer
    parser,     \* the SseEventParser object (currentEvent_, lastEventId_, out)
    pbuf,       \* the MsgBuffer handed to SseEventParser::parse
    stream,     \* the bytes the peer sends to this parser
    ppos,       \* how many of them have been appended to pbuf
    fed,        \* the lines given to the parser and its resets, in order
    \* --- one SseClientContext on one connection
    ctx,        \* the SseClientContext object
    buf,        \* the connection's MsgBuffer, handed to every parse call
    log,        \* the callbacks invoked so far, in order
    hist,       \* the values ctx.status_ has taken, in order
    resp,       \* the response the server sends (framing, payload, chunks)
    wire,       \* its bytes
    pos,        \* how many of them have arrived
    hook,       \* what the application's callbacks call back (UserCallback)
    parseRet,   \* what the last parse call returned
    lateParses, \* parse calls made on a Closed context
    onCloseCalls, \* onClose calls made by the owner of the context
    \* --- one SseWriter and the ResponseStream it owns
    writer,     \* the SseWriter object (stream_, closed_)
    wstream,    \* the ResponseStream: what was written to it, its close calls
    wret,       \* what the last call on the writer returned
    wcalls,     \* calls made on the writer so far
    closeReturned, \* whether a close() call has returned
    wlast,      \* the last call made on the writer: member, argument, and
                \* what the transport reports for a write
    \* --- threads that run a call statement by statement
    tpc,        \* where each thread is in its call
    top,        \* the call each thread is making
    tdone,      \* calls each thread has completed
    ub          \* whether a thread has dereferenced a null stream_

codecVars  == <<event, message, decoded, step>>
parserVars == <<parser, pbuf, stream, ppos, fed>>
ctxVars    ==
    <<ctx, buf, log, hist, resp, wire, pos, hook, parseRet, lateParses,
      onCloseCalls>>
writerVars == <<writer, wstream, wret, wcalls, closeReturned, wlast>>
threadVars == <<tpc, top, tdone, ub>>
vars == <<codecVars, parserVars, ctxVars, writerVars, threadVars>>

-----------------------------------------------------------------------------
(* Bytes and strings *)

LF  == "\n"
CR  == "\r"
SP  == " "
NUL == "NUL"

Digits == <<"0", "1", "2", "3", "4", "5", "6", "7", "8", "9">>

IsDigit(c) == \E d \in 1..10 : Digits[d] = c

DigitVal(c) == (CHOOSE d \in 1..10 : Digits[d] = c) - 1

\* std::string::find(ch): the first index of ch in s, 0 when there is none
\* (std::string::npos).
Find(s, ch) ==
    IF \E i \in 1..Len(s) : s[i] = ch
    THEN CHOOSE i \in 1..Len(s) : s[i] = ch /\ \A j \in 1..(i - 1) : s[j] # ch
    ELSE 0

\* s.substr(from) with a 1-based index.
Substr(s, from) == SubSeq(s, from, Len(s))

\* operator<<(int) / std::to_string(int): the decimal digits of n.
RECURSIVE NatToStr(_)
NatToStr(n) ==
    IF n < 10 THEN <<Digits[n + 1]>>
    ELSE NatToStr(n \div 10) \o <<Digits[(n % 10) + 1]>>

IntToStr(n) == IF n < 0 THEN <<"-">> \o NatToStr(0 - n) ELSE NatToStr(n)

\* std::atoi on a string the caller has checked to be all digits.
RECURSIVE Atoi(_)
Atoi(s) ==
    IF s = <<>> THEN 0
    ELSE 10 * Atoi(SubSeq(s, 1, Len(s) - 1)) + DigitVal(s[Len(s)])

S_event == <<"e", "v", "e", "n", "t">>
S_data  == <<"d", "a", "t", "a">>
S_id    == <<"i", "d">>
S_retry == <<"r", "e", "t", "r", "y">>
S_message == <<"m", "e", "s", "s", "a", "g", "e">>

-----------------------------------------------------------------------------
(* SseEvent *)

\* SseEvent::newEvent(): empty strings, retry_{0}.
NewEvent == [event_ |-> <<>>, data_ |-> <<>>, id_ |-> <<>>, retry_ |-> 0]

\* SseEvent::isValid
IsValid(e) == e.data_ # <<>>

-----------------------------------------------------------------------------
(* SseWriter::formatEvent *)

\* The lines std::getline reads from an istringstream over s: the segments
\* between LFs; a final LF does not open another (empty) segment.
RECURSIVE GetLines(_)
GetLines(s) ==
    IF s = <<>> THEN <<>>
    ELSE LET i == Find(s, LF) IN
         IF i = 0 THEN <<s>>
         ELSE <<SubSeq(s, 1, i - 1)>> \o GetLines(Substr(s, i + 1))

RECURSIVE DataLines(_)
DataLines(lines) ==
    IF lines = <<>> THEN <<>>
    ELSE S_data \o <<":">> \o Head(lines) \o <<LF>> \o DataLines(Tail(lines))

\* formatEvent writing the id line before the event line.
FormatEventIdFirst(e) ==
    (IF e.id_ # <<>> THEN S_id \o <<":">> \o e.id_ \o <<LF>> ELSE <<>>)
    \o (IF e.event_ # <<>> THEN S_event \o <<":">> \o e.event_ \o <<LF>> ELSE <<>>)
    \o (IF e.retry_ > 0
        THEN S_retry \o <<":">> \o IntToStr(e.retry_) \o <<LF>> ELSE <<>>)
    \o (IF e.data_ # <<>> THEN DataLines(GetLines(e.data_))
        ELSE S_data \o <<":">> \o <<LF>>)
    \o <<LF>>

FormatEvent(e) ==
    (IF e.event_ # <<>> THEN S_event \o <<":">> \o e.event_ \o <<LF>> ELSE <<>>)
    \o (IF e.id_ # <<>> THEN S_id \o <<":">> \o e.id_ \o <<LF>> ELSE <<>>)
    \o (IF e.retry_ > 0
        THEN S_retry \o <<":">> \o IntToStr(e.retry_) \o <<LF>> ELSE <<>>)
    \o (IF e.data_ # <<>> THEN DataLines(GetLines(e.data_))
        ELSE S_data \o <<":">> \o <<LF>>)
    \o <<LF>>

-----------------------------------------------------------------------------
(* SseEventParser *)

\* A parser as constructed. out lists the event objects handed to
\* eventCallback_, in call order, with the content they have now; aliased
\* tells whether currentEvent_ points to the last of them, so that a write
\* through currentEvent_ is a write to it.
NewParser ==
    [currentEvent_ |-> NewEvent, lastEventId_ |-> <<>>, out |-> <<>>,
     aliased |-> FALSE]

\* A write of e to the object currentEvent_ points to.
SetCurrent(p, e) ==
    [p EXCEPT !.currentEvent_ = e,
              !.out = IF p.aliased THEN [@ EXCEPT ![Len(@)] = e] ELSE @]

\* dispatchEvent emptying the event object in place after the callback,
\* without allocating another.
DispatchEventReusesObject(p) ==
    LET cur == p.currentEvent_ IN
    IF IsValid(cur)
    THEN [p EXCEPT !.out = Append(@, NewEvent),
                   !.currentEvent_ = NewEvent,
                   !.aliased = TRUE]
    ELSE SetCurrent(p, NewEvent)

\* dispatchEvent without its test of isValid.
DispatchEventAlways(p) ==
    LET cur == p.currentEvent_ IN
    [p EXCEPT !.out = Append(@, IF cur.event_ = <<>>
                                THEN [cur EXCEPT !.event_ = S_message]
                                ELSE cur),
              !.currentEvent_ = NewEvent]

\* dispatchEvent clearing lastEventId_ together with the pending event.
DispatchEventForgetsId(p) ==
    LET cur == p.currentEvent_ IN
    [p EXCEPT !.out = IF IsValid(cur)
                      THEN Append(@, IF cur.event_ = <<>>
                                     THEN [cur EXCEPT !.event_ = S_message]
                                     ELSE cur)
                      ELSE @,
              !.currentEvent_ = NewEvent,
              !.lastEventId_ = <<>>]

\* dispatchEvent keeping the pending event when it is not valid.
DispatchEventKeepsInvalid(p) ==
    LET cur == p.currentEvent_ IN
    IF IsValid(cur)
    THEN [p EXCEPT !.out = Append(@, IF cur.event_ = <<>>
                                     THEN [cur EXCEPT !.event_ = S_message]
                                     ELSE cur),
                   !.currentEvent_ = NewEvent]
    ELSE p

\* SseEventParser::dispatchEvent
DispatchEvent(p) ==
    LET cur == p.currentEvent_
        ev  == IF cur.event_ = <<>> THEN [cur EXCEPT !.event_ = S_message]
               ELSE cur
    IN  [p EXCEPT !.out = IF IsValid(cur) THEN Append(@, ev) ELSE @,
                  !.currentEvent_ = NewEvent,
                  !.aliased = FALSE]

\* The field name of a line that is neither empty nor a comment.
LineField(line) ==
    LET colonPos == Find(line, ":") IN
    IF colonPos = 0 THEN line ELSE SubSeq(line, 1, colonPos - 1)

\* Its value: what follows the colon, less one leading space.
LineValue(line) ==
    LET colonPos == Find(line, ":") IN
    IF colonPos = 0 THEN <<>>
    ELSE LET valueStart == colonPos + 1 IN
         IF valueStart <= Len(line) /\ line[valueStart] = SP
         THEN Substr(line, valueStart + 1)
         ELSE Substr(line, valueStart)

\* allDigits without "!value.empty()".
AllDigitsOrEmpty(value) == \A i \in 1..Len(value) : IsDigit(value[i])

AllDigits(value) ==
    value # <<>> /\ \A i \in 1..Len(value) : IsDigit(value[i])

\* processLine on a line that is neither empty nor a comment: the field is
\* applied to the pending event.
ProcessField(p, line) ==
    LET field == LineField(line)
        value == LineValue(line)
        cur   == p.currentEvent_
    IN  IF field = S_event
        THEN SetCurrent(p, [cur EXCEPT !.event_ = value])
        ELSE IF field = S_data
        THEN SetCurrent(p, [cur EXCEPT !.data_ =
                               IF @ # <<>> THEN @ \o <<LF>> \o value
                               ELSE value])
        ELSE IF field = S_id
        THEN IF Find(value, NUL) = 0
             THEN [SetCurrent(p, [cur EXCEPT !.id_ = value]) EXCEPT
                      !.lastEventId_ = value]
             ELSE p
        ELSE IF field = S_retry
        THEN IF AllDigits(value)
             THEN SetCurrent(p, [cur EXCEPT !.retry_ = Atoi(value)])
             ELSE p
        ELSE p

\* processLine taking a comment line for a blank line.
ProcessLineCommentDispatches(p, line) ==
    IF line = <<>> \/ line[1] = ":" THEN DispatchEvent(p)
    ELSE ProcessField(p, line)

\* SseEventParser::processLine
ProcessLine(p, line) ==
    IF line = <<>> THEN DispatchEvent(p)
    ELSE IF line[1] = ":" THEN p
    ELSE ProcessField(p, line)

\* The line that ends at the LF at index lf of b: without the LF and without
\* a CR right before it.
ExtractLine(b, lf) ==
    LET lineLen == lf - 1 IN
    IF lineLen > 0 /\ b[lineLen] = CR THEN SubSeq(b, 1, lineLen - 1)
    ELSE SubSeq(b, 1, lineLen)

\* parse as it would be if it did not wait for the LF of the last line: what
\* is left without a terminator is processed as a line and retrieved.
RECURSIVE ParserParseEager(_, _)
ParserParseEager(p, b) ==
    LET lf == Find(b, LF) IN
    IF b = <<>> THEN [p |-> p, buf |-> b]
    ELSE IF lf = 0 THEN [p |-> ProcessLine(p, b), buf |-> <<>>]
    ELSE ParserParseEager(ProcessLine(p, ExtractLine(b, lf)), Substr(b, lf + 1))

\* SseEventParser::reset (lineBuffer_ is never written and stays empty)
ParserReset(p) == [p EXCEPT !.currentEvent_ = NewEvent, !.aliased = FALSE]

\* SseEventParser::parse: the parser after the call and what the call left
\* unread in the buffer.
RECURSIVE ParserParse(_, _)
ParserParse(p, b) ==
    LET lf == Find(b, LF) IN
    IF b = <<>> \/ lf = 0 THEN [p |-> p, buf |-> b]
    ELSE ParserParse(ProcessLine(p, ExtractLine(b, lf)), Substr(b, lf + 1))

-----------------------------------------------------------------------------
(* SseClientContext *)

\* HttpStatusCode kUnknown, the status code of a response as constructed.
kUnknown == 0

Min(a, b) == IF a < b THEN a ELSE b

\* A negative number stored in a size_t wraps to a value near 2^64; HugeSize
\* stands for it: more than any buffer holds.
HugeSize == 2147483647

Upper == <<"A", "B", "C", "D", "E", "F", "G", "H", "I", "J", "K", "L", "M",
           "N", "O", "P", "Q", "R", "S", "T", "U", "V", "W", "X", "Y", "Z">>
Lower == <<"a", "b", "c", "d", "e", "f", "g", "h", "i", "j", "k", "l", "m",
           "n", "o", "p", "q", "r", "s", "t", "u", "v", "w", "x", "y", "z">>

\* tolower
ToLowerCh(ch) ==
    IF \E i \in 1..26 : Upper[i] = ch
    THEN Lower[CHOOSE i \in 1..26 : Upper[i] = ch]
    ELSE ch

ToLower(str) == [i \in 1..Len(str) |-> ToLowerCh(str[i])]

S_transfer_encoding ==
    <<"t", "r", "a", "n", "s", "f", "e", "r", "-",
      "e", "n", "c", "o", "d", "i", "n", "g">>
S_content_length ==
    <<"c", "o", "n", "t", "e", "n", "t", "-", "l", "e", "n", "g", "t", "h">>
S_chunked == <<"c", "h", "u", "n", "k", "e", "d">>

\* MsgBuffer::findCRLF: the index of the first CR that an LF follows, 0 when
\* there is none.
FindCRLF(b) ==
    IF \E i \in 1..(Len(b) - 1) : b[i] = CR /\ b[i + 1] = LF
    THEN CHOOSE i \in 1..(Len(b) - 1) :
            /\ b[i] = CR /\ b[i + 1] = LF
            /\ \A j \in 1..(i - 1) : ~(b[j] = CR /\ b[j + 1] = LF)
    ELSE 0

\* The value of the longest prefix of digits of s in the given base (0 when
\* s does not start with a digit), as strtol, atoi and stoull read it.
HexDigits == <<"0", "1", "2", "3", "4", "5", "6", "7", "8", "9",
               "a", "b", "c", "d", "e", "f">>

IsBaseDigit(ch, base) == \E d \in 1..base : HexDigits[d] = ToLowerCh(ch)

BaseDigitVal(ch) == (CHOOSE d \in 1..16 : HexDigits[d] = ToLowerCh(ch)) - 1

RECURSIVE PrefixVal(_, _, _)
PrefixVal(str, base, acc) ==
    IF str = <<>> \/ ~IsBaseDigit(str[1], base) THEN acc
    ELSE PrefixVal(Tail(str), base, acc * base + BaseDigitVal(str[1]))

RECURSIVE SkipSpaces(_)
SkipSpaces(str) ==
    IF str # <<>> /\ str[1] = SP THEN SkipSpaces(Tail(str)) ELSE str

\* The number a C conversion reads: leading spaces, an optional sign, then
\* digits of the base.
SignedPrefixVal(str, base) ==
    LET t == SkipSpaces(str) IN
    IF t # <<>> /\ t[1] = "-" THEN 0 - PrefixVal(Tail(t), base, 0)
    ELSE IF t # <<>> /\ t[1] = "+" THEN PrefixVal(Tail(t), base, 0)
    ELSE PrefixVal(t, base, 0)

\* Whether such a conversion finds a digit at all (std::stoull throws
\* std::invalid_argument when it does not).
HasNumber(str, base) ==
    LET t == SkipSpaces(str)
        u == IF t # <<>> /\ t[1] \in {"-", "+"} THEN Tail(t) ELSE t
    IN  u # <<>> /\ IsBaseDigit(u[1], base)

\* std::atoi of the status token.
AtoiC(str) == SignedPrefixVal(str, 10)

\* strtol(lenStr, &endPtr, 16) stored in the size_t currentChunkLength_; a
\* "0x" before the digits is part of the number.
Strtol16(str) ==
    LET t == SkipSpaces(str)
        neg == t # <<>> /\ t[1] = "-"
        u == IF t # <<>> /\ t[1] \in {"-", "+"} THEN Tail(t) ELSE t
        v == IF Len(u) >= 3 /\ u[1] = "0" /\ ToLowerCh(u[2]) = "x"
                /\ IsBaseDigit(u[3], 16)
             THEN SubSeq(u, 3, Len(u)) ELSE u
        n == PrefixVal(v, 16, 0)
    IN  IF neg /\ n > 0 THEN HugeSize ELSE n

\* static_cast<size_t>(std::stoull(lenStr)), for a value that has a number.
Stoull(str) ==
    LET n == SignedPrefixVal(str, 10) IN IF n < 0 THEN HugeSize ELSE n

\* HttpResponseImpl as constructed; headers is the list of (field, value)
\* pairs of headers_, one per field.
NewResponse == [version |-> "kUnknown", statusCode |-> kUnknown,
                headers |-> <<>>]

\* headers_[field] = value
AddHeader(headers, field, value) ==
    IF \E i \in 1..Len(headers) : headers[i][1] = field
    THEN [i \in 1..Len(headers) |->
            IF headers[i][1] = field THEN <<field, value>> ELSE headers[i]]
    ELSE Append(headers, <<field, value>>)

\* getHeaderBy(lowerKey): the value, or the empty string.
GetHeaderBy(headers, key) ==
    IF \E i \in 1..Len(headers) : headers[i][1] = key
    THEN headers[CHOOSE i \in 1..Len(headers) : headers[i][1] = key][2]
    ELSE <<>>

\* SseClientContext as constructed. responsePtr_ and eventParser_ are <<>>
\* while null and a one-element sequence once set.
NewContext ==
    [status_ |-> "ExpectHeaders",
     timedOut_ |-> FALSE,
     closedCallbackInvoked_ |-> FALSE,
     responsePtr_ |-> <<>>,
     eventParser_ |-> <<>>,
     isChunked_ |-> FALSE,
     currentChunkLength_ |-> 0,
     expectChunkLength_ |-> FALSE,
     contentLength_ |-> 0,
     bytesRead_ |-> 0]

\* An entry of the record of callback invocations.
Note(cb, ev) == [cb |-> cb, ev |-> ev]

\* The operators below work on a machine m = [c, buf, log, hist, ret]: the
\* context, the MsgBuffer of the call, the callbacks invoked so far, the
\* values status_ has taken, and the value the call returns ("true", "false",
\* or "threw" for an exception leaving it).

\* status_ = v; hist keeps the values status_ has taken, in order.
SetStatus(m, v) ==
    [m EXCEPT !.c.status_ = v,
              !.hist = IF @[Len(@)] = v THEN @ ELSE Append(@, v)]

\* SseClientContext::onClose
OnClose(m) ==
    IF m.c.closedCallbackInvoked_ THEN m
    ELSE [SetStatus([m EXCEPT !.c.closedCallbackInvoked_ = TRUE], "Closed")
            EXCEPT !.log = Append(@, Note("closed", NewEvent))]

\* SseClientContext::setTimedOut
SetTimedOut(m) == [m EXCEPT !.c.timedOut_ = TRUE]

\* SseClientContext::setClosed
SetClosed(m) == SetStatus(m, "Closed")

\* What the application's callback does when it is invoked: h.on names the
\* callback ("headers", "event" or "none") that calls back into the context
\* and h.call the member it calls.
UserCallback(m, h, cb) ==
    IF h.on # cb THEN m
    ELSE IF h.call = "onClose" THEN OnClose(m)
    ELSE IF h.call = "setTimedOut" THEN SetTimedOut(m)
    ELSE SetClosed(m)

\* The lambda as it would be without its test of timedOut_.
EventLambdaNoTimeout(m, ev, h) ==
    UserCallback([m EXCEPT !.log = Append(@, Note("event", ev))], h, "event")

\* The lambda parseHeaders gives the SseEventParser as its callback.
EventLambda(m, ev, h) ==
    IF ~m.c.timedOut_
    THEN UserCallback([m EXCEPT !.log = Append(@, Note("event", ev))],
                      h, "event")
    ELSE m

RECURSIVE DeliverAll(_, _, _)
DeliverAll(m, evs, h) ==
    IF evs = <<>> THEN m
    ELSE DeliverAll(EventLambda(m, Head(evs), h), Tail(evs), h)

\* eventParser_->parse(bytes): the machine after the call, the lambda having
\* run for each event in dispatch order, and what the parser left unread.
RunParser(m, bytes, h) ==
    LET old == m.c.eventParser_[1]
        r   == ParserParse(old, bytes)
        new == SubSeq(r.p.out, Len(old.out) + 1, Len(r.p.out))
    IN  [m |-> DeliverAll([m EXCEPT !.c.eventParser_ = <<r.p>>], new, h),
         rest |-> r.buf]

\* processResponseLine taking a line without a space for a status line.
ProcessResponseLineLenient(rsp, line) ==
    [ok |-> TRUE, resp |-> [rsp EXCEPT !.statusCode = 200]]

\* SseClientContext::processResponseLine on the line [begin, end): whether it
\* is accepted, and the response after it. (A line that starts with a space
\* makes the code read the byte before the line; no response below has one.)
ProcessResponseLine(rsp, line) ==
    LET space == Find(line, SP) IN
    IF space = 0 \/ space = 1 THEN [ok |-> FALSE, resp |-> rsp]
    ELSE IF line[space - 1] \notin {"1", "0"} THEN [ok |-> FALSE, resp |-> rsp]
    ELSE LET r1 == [rsp EXCEPT !.version =
                        IF line[space - 1] = "1" THEN "kHttp11" ELSE "kHttp10"]
             rest == Substr(line, space + 1)
             space2 == Find(rest, SP)
         IN  IF space2 = 0 THEN [ok |-> FALSE, resp |-> r1]
             ELSE [ok |-> TRUE,
                   resp |-> [r1 EXCEPT !.statusCode =
                                AtoiC(SubSeq(rest, 1, space2 - 1))]]

\* EndOfHeaders without its last assignment, status_ = Status::ExpectBody.
EndOfHeadersNoStatus(m, h) ==
    [m EXCEPT !.c.eventParser_ = <<NewParser>>,
              !.log = Append(@, Note("headers", NewEvent))]

\* The end of the header block: the framing mode is chosen, the parser is
\* created, the headers callback runs and the status becomes ExpectBody.
EndOfHeaders(m, h) ==
    LET headers == m.c.responsePtr_[1].headers
        encoding == GetHeaderBy(headers, S_transfer_encoding)
        lenStr == GetHeaderBy(headers, S_content_length)
    IN  IF encoding # S_chunked /\ lenStr # <<>> /\ ~HasNumber(lenStr, 10)
        THEN [m EXCEPT !.ret = "threw"]
        ELSE
        LET m1 == IF encoding = S_chunked
                  THEN [m EXCEPT !.c.isChunked_ = TRUE,
                                 !.c.expectChunkLength_ = TRUE]
                  ELSE IF lenStr # <<>>
                  THEN [m EXCEPT !.c.contentLength_ = Stoull(lenStr)]
                  ELSE m
            m2 == [m1 EXCEPT !.c.eventParser_ = <<NewParser>>,
                             !.log = Append(@, Note("headers", NewEvent))]
            m3 == UserCallback(m2, h, "headers")
        IN  SetStatus(m3, "ExpectBody")

\* A header line: field lower-cased, value without its leading spaces.
HeaderLine(headers, line) ==
    LET colon == Find(line, ":") IN
    IF colon = 0 THEN headers
    ELSE AddHeader(headers, ToLower(SubSeq(line, 1, colon - 1)),
                   SkipSpaces(Substr(line, colon + 1)))

\* The loop of SseClientContext::parseHeaders.
RECURSIVE HeadersLoop(_, _, _)
HeadersLoop(m, statusLineParsed, h) ==
    LET crlf == FindCRLF(m.buf) IN
    IF m.buf = <<>> \/ crlf = 0 THEN m
    ELSE IF ~statusLineParsed
    THEN LET r == ProcessResponseLine(m.c.responsePtr_[1],
                                      SubSeq(m.buf, 1, crlf - 1))
         IN  IF ~r.ok
             THEN [m EXCEPT !.c.responsePtr_ = <<r.resp>>, !.ret = "false"]
             ELSE HeadersLoop([m EXCEPT !.c.responsePtr_ = <<r.resp>>,
                                        !.buf = Substr(@, crlf + 2)],
                              TRUE, h)
    ELSE IF crlf = 1
    THEN EndOfHeaders([m EXCEPT !.buf = Substr(@, crlf + 2)], h)
    ELSE HeadersLoop(
            [m EXCEPT !.c.responsePtr_[1].headers =
                          HeaderLine(@, SubSeq(m.buf, 1, crlf - 1)),
                      !.buf = Substr(@, crlf + 2)],
            statusLineParsed, h)

\* SseClientContext::parseHeaders
ParseHeaders(m, h) ==
    LET m1 == IF m.c.responsePtr_ = <<>>
              THEN [m EXCEPT !.c.responsePtr_ = <<NewResponse>>] ELSE m
    IN  HeadersLoop(m1, m1.c.responsePtr_[1].statusCode # kUnknown, h)

\* The chunked branch leaving the remaining-byte count as it was when the
\* buffer ran out before the end of the chunk.
RECURSIVE ChunkedLoopKeepsCount(_, _)
ChunkedLoopKeepsCount(m, h) ==
    IF m.buf = <<>> THEN m
    ELSE IF m.c.expectChunkLength_
    THEN LET crlf == FindCRLF(m.buf) IN
         IF crlf = 0 THEN m
         ELSE LET len == Strtol16(SubSeq(m.buf, 1, crlf - 1))
                  b1  == Substr(m.buf, crlf + 2)
                  crlf2 == FindCRLF(b1)
              IN  IF len = 0
                  THEN SetStatus(
                          [m EXCEPT !.c.currentChunkLength_ = 0,
                                    !.buf = IF crlf2 # 0
                                            THEN Substr(b1, crlf2 + 2) ELSE b1],
                          "Closed")
                  ELSE ChunkedLoopKeepsCount(
                          [m EXCEPT !.c.currentChunkLength_ = len,
                                    !.c.expectChunkLength_ = FALSE,
                                    !.buf = b1], h)
    ELSE LET toRead == Min(m.c.currentChunkLength_, Len(m.buf))
             m1 == IF toRead > 0
                   THEN [RunParser(m, SubSeq(m.buf, 1, toRead), h).m EXCEPT
                            !.buf = Substr(m.buf, toRead + 1),
                            !.c.currentChunkLength_ =
                                IF toRead = @ THEN 0 ELSE @]
                   ELSE m
         IN  IF m1.c.currentChunkLength_ = 0
             THEN IF Len(m1.buf) >= 2
                  THEN ChunkedLoopKeepsCount(
                          [m1 EXCEPT !.buf = Substr(@, 3),
                                     !.c.expectChunkLength_ = TRUE], h)
                  ELSE m1
             ELSE ChunkedLoopKeepsCount(m1, h)

\* The chunked branch returning after a chunk-size line of value zero without
\* the assignment status_ = Status::Closed.
RECURSIVE ChunkedLoopZeroStaysOpen(_, _)
ChunkedLoopZeroStaysOpen(m, h) ==
    IF m.buf = <<>> THEN m
    ELSE IF m.c.expectChunkLength_
    THEN LET crlf == FindCRLF(m.buf) IN
         IF crlf = 0 THEN m
         ELSE LET len == Strtol16(SubSeq(m.buf, 1, crlf - 1))
                  b1  == Substr(m.buf, crlf + 2)
                  crlf2 == FindCRLF(b1)
              IN  IF len = 0
                  THEN [m EXCEPT !.c.currentChunkLength_ = 0,
                                 !.buf = IF crlf2 # 0
                                         THEN Substr(b1, crlf2 + 2) ELSE b1]
                  ELSE ChunkedLoopZeroStaysOpen(
                          [m EXCEPT !.c.currentChunkLength_ = len,
                                    !.c.expectChunkLength_ = FALSE,
                                    !.buf = b1], h)
    ELSE LET toRead == Min(m.c.currentChunkLength_, Len(m.buf))
             m1 == IF toRead > 0
                   THEN [RunParser(m, SubSeq(m.buf, 1, toRead), h).m EXCEPT
                            !.buf = Substr(m.buf, toRead + 1),
                            !.c.currentChunkLength_ = @ - toRead]
                   ELSE m
         IN  IF m1.c.currentChunkLength_ = 0
             THEN IF Len(m1.buf) >= 2
                  THEN ChunkedLoopZeroStaysOpen(
                          [m1 EXCEPT !.buf = Substr(@, 3),
                                     !.c.expectChunkLength_ = TRUE], h)
                  ELSE m1
             ELSE ChunkedLoopZeroStaysOpen(m1, h)

\* The chunked branch of SseClientContext::parseBody.
RECURSIVE ChunkedLoop(_, _)
ChunkedLoop(m, h) ==
    IF m.buf = <<>> THEN m
    ELSE IF m.c.expectChunkLength_
    THEN LET crlf == FindCRLF(m.buf) IN
         IF crlf = 0 THEN m
         ELSE LET len == Strtol16(SubSeq(m.buf, 1, crlf - 1))
                  b1  == Substr(m.buf, crlf + 2)
                  crlf2 == FindCRLF(b1)
              IN  IF len = 0
                  THEN SetStatus(
                          [m EXCEPT !.c.currentChunkLength_ = 0,
                                    !.buf = IF crlf2 # 0
                                            THEN Substr(b1, crlf2 + 2) ELSE b1],
                          "Closed")
                  ELSE ChunkedLoop([m EXCEPT !.c.currentChunkLength_ = len,
                                             !.c.expectChunkLength_ = FALSE,
                                             !.buf = b1], h)
    ELSE LET toRead == Min(m.c.currentChunkLength_, Len(m.buf))
             \* the bytes go to the parser in a temporary buffer that is
             \* dropped with whatever the parser left in it
             m1 == IF toRead > 0
                   THEN [RunParser(m, SubSeq(m.buf, 1, toRead), h).m EXCEPT
                            !.buf = Substr(m.buf, toRead + 1),
                            !.c.currentChunkLength_ = @ - toRead]
                   ELSE m
         IN  IF m1.c.currentChunkLength_ = 0
             THEN IF Len(m1.buf) >= 2
                  THEN ChunkedLoop([m1 EXCEPT !.buf = Substr(@, 3),
                                              !.c.expectChunkLength_ = TRUE], h)
                  ELSE m1
             ELSE ChunkedLoop(m1, h)

\* parseBody closing the context in the unbounded mode once the buffer holds
\* no complete line.
ParseBodyUnboundedCloses(m, h) ==
    IF m.c.eventParser_ = <<>> THEN [m EXCEPT !.ret = "false"]
    ELSE IF m.c.isChunked_ THEN ChunkedLoop(m, h)
    ELSE IF m.c.contentLength_ > 0
    THEN LET remaining == m.c.contentLength_ - m.c.bytesRead_
             toRead == Min(remaining, Len(m.buf))
             m1 == IF toRead > 0
                   THEN LET r == RunParser(m, m.buf, h) IN
                        [r.m EXCEPT !.buf = r.rest,
                                    !.c.bytesRead_ = @ + toRead]
                   ELSE m
         IN  IF m1.c.bytesRead_ >= m1.c.contentLength_
             THEN SetStatus(m1, "Closed")
             ELSE m1
    ELSE LET r == RunParser(m, m.buf, h) IN
         SetStatus([r.m EXCEPT !.buf = r.rest], "Closed")

\* SseClientContext::parseBody
ParseBody(m, h) ==
    IF m.c.eventParser_ = <<>> THEN [m EXCEPT !.ret = "false"]
    ELSE IF m.c.isChunked_ THEN ChunkedLoop(m, h)
    ELSE IF m.c.contentLength_ > 0
    THEN LET remaining == m.c.contentLength_ - m.c.bytesRead_
             toRead == Min(remaining, Len(m.buf))
             m1 == IF toRead > 0
                   THEN LET r == RunParser(m, m.buf, h) IN
                        [r.m EXCEPT !.buf = r.rest,
                                    !.c.bytesRead_ = @ + toRead]
                   ELSE m
         IN  IF m1.c.bytesRead_ >= m1.c.contentLength_
             THEN SetStatus(m1, "Closed")
             ELSE m1
    ELSE LET r == RunParser(m, m.buf, h) IN [r.m EXCEPT !.buf = r.rest]

\* parse without its test of Status::Closed.
ParseNoClosedTest(m0, h) ==
    LET m == [m0 EXCEPT !.ret = "true"]
        m1 == IF m.c.status_ = "ExpectHeaders" THEN ParseHeaders(m, h) ELSE m
    IN  IF m1.ret # "true" THEN m1
        ELSE IF m1.c.status_ = "ExpectBody" THEN ParseBody(m1, h)
        ELSE m1

\* SseClientContext::parse
Parse(m0, h) ==
    LET m == [m0 EXCEPT !.ret = "true"] IN
    IF m.c.status_ = "Closed" THEN [m EXCEPT !.ret = "false"]
    ELSE LET m1 == IF m.c.status_ = "ExpectHeaders" THEN ParseHeaders(m, h)
                   ELSE m
         IN  IF m1.ret # "true" THEN m1
             ELSE IF m1.c.status_ = "ExpectBody" THEN ParseBody(m1, h)
             ELSE m1

-----------------------------------------------------------------------------
(* SseWriter *)

\* SseWriter::SseWriter(stream): stream_ is TRUE while it holds a
\* ResponseStream, FALSE while it is null.
NewWriter(attached) == [stream_ |-> attached, closed_ |-> FALSE]

\* The ResponseStream: the messages written through it, the messages written
\* after it was closed, and how often its close was called.
NewStream == [writes |-> <<>>, lateWrites |-> 0, closeCalls |-> 0]

\* No call has been made on the writer yet.
NoCall == [op |-> "none", arg |-> <<>>, up |-> FALSE]

\* SseWriter::isOpen
IsOpen(w) == w.stream_ /\ ~w.closed_

\* The operators below work on W = [w, s, ret]: the writer, its stream, and
\* what the call returns.

\* stream_->send(message): the transport reports up.
StreamSend(W, msg, up) ==
    [W EXCEPT !.s.writes = Append(@, msg),
              !.s.lateWrites = IF W.s.closeCalls > 0 THEN @ + 1 ELSE @,
              !.ret = IF up THEN "true" ELSE "false"]

\* stream_->close()
StreamClose(W) == [W EXCEPT !.s.closeCalls = @ + 1]

\* send marking the writer closed when the write reports false.
WriterSendClosesOnFailure(W, ev, up) ==
    IF ~W.w.stream_ \/ W.w.closed_ THEN [W EXCEPT !.ret = "false"]
    ELSE [StreamSend(W, FormatEvent(ev), up) EXCEPT !.w.closed_ = ~up]

\* SseWriter::send(event)
WriterSend(W, ev, up) ==
    IF ~W.w.stream_ \/ W.w.closed_ THEN [W EXCEPT !.ret = "false"]
    ELSE StreamSend(W, FormatEvent(ev), up)

\* SseWriter::sendComment
WriterSendComment(W, comment, up) ==
    IF ~W.w.stream_ \/ W.w.closed_ THEN [W EXCEPT !.ret = "false"]
    ELSE StreamSend(W, IF comment = <<>> THEN <<":", LF, LF>>
                       ELSE <<":">> \o comment \o <<LF, LF>>, up)

\* SseWriter::sendRetry
WriterSendRetry(W, retryMs, up) ==
    IF ~W.w.stream_ \/ W.w.closed_ THEN [W EXCEPT !.ret = "false"]
    ELSE StreamSend(W, S_retry \o <<":">> \o IntToStr(retryMs) \o <<LF, LF>>,
                    up)

\* close as it would be if it only closed the stream, without setting
\* closed_ and without resetting stream_.
WriterCloseNoMark(W) ==
    IF W.w.stream_ /\ ~W.w.closed_ THEN [StreamClose(W) EXCEPT !.ret = "void"]
    ELSE [W EXCEPT !.ret = "void"]

\* close without its test of stream_ and closed_.
WriterCloseUnguarded(W) ==
    [StreamClose([W EXCEPT !.w.closed_ = TRUE]) EXCEPT
        !.w.stream_ = FALSE, !.ret = "void"]

\* SseWriter::close
WriterClose(W) ==
    IF W.w.stream_ /\ ~W.w.closed_
    THEN [StreamClose([W EXCEPT !.w.closed_ = TRUE]) EXCEPT
             !.w.stream_ = FALSE, !.ret = "void"]
    ELSE [W EXCEPT !.ret = "void"]

-----------------------------------------------------------------------------
(* Bounds of the model *)

\* A read delivers at most MaxFrag bytes, or everything that is left.
MaxFrag == 3

\* An event stream fed to the stand-alone parser holds at most MaxBlocks
\* blocks of ParserBlocks.
MaxBlocks == 2

\* At most MaxLateParses parse calls are made on a context that is Closed.
MaxLateParses == 1

\* The owner of a context calls onClose at most MaxOnCloseCalls times.
MaxOnCloseCalls == 2

\* At most MaxWriterCalls calls are made on a writer, one after the other.
MaxWriterCalls == 3

\* At most MaxLines lines and resets are given to a parser.
MaxLines == 4

\* NThreads threads share an object, each making at most MaxThreadCalls
\* calls on it.
NThreads == 2
MaxThreadCalls == 2

Threads == 1..NThreads

FragSizes(remaining) ==
    {k \in 1..remaining : k <= MaxFrag \/ k = remaining}

-----------------------------------------------------------------------------
(* Round trip: formatEvent, then a fresh SseEventParser *)

CodecTypes == {<<>>, <<"x">>, <<SP, "x">>}
CodecData  == {<<>>, <<"a">>, <<SP, "a">>, <<"a", LF>>, <<"a", LF, "b">>,
               <<LF, "b">>, <<"a", LF, LF, "b">>}
CodecIds   == {<<>>, <<"7">>, <<SP, "7">>}
CodecRetry == {0, 5, 30}

CodecEvents ==
    {[event_ |-> t, data_ |-> d, id_ |-> i, retry_ |-> r] :
        t \in CodecTypes, d \in CodecData, i \in CodecIds, r \in CodecRetry}

CodecIdle ==
    /\ event = NewEvent
    /\ message = <<>>
    /\ decoded = <<>>
    /\ step = "idle"

ParserIdle ==
    /\ parser = NewParser
    /\ pbuf = <<>>
    /\ stream = <<>>
    /\ ppos = 0
    /\ fed = <<>>

CtxIdle ==
    /\ ctx = NewContext
    /\ buf = <<>>
    /\ log = <<>>
    /\ hist = <<"ExpectHeaders">>
    /\ resp = [status |-> <<>>, framing |-> "none", header |-> <<>>,
             chunks |-> <<>>, length |-> 0]
    /\ wire = <<>>
    /\ pos = 0
    /\ hook = [on |-> "none", call |-> "none"]
    /\ parseRet = "none"
    /\ lateParses = 0
    /\ onCloseCalls = 0

WriterIdle ==
    /\ writer = NewWriter(FALSE)
    /\ wstream = NewStream
    /\ wret = "none"
    /\ wcalls = 0
    /\ closeReturned = FALSE
    /\ wlast = NoCall

ThreadsIdle ==
    /\ tpc = <<>>
    /\ top = <<>>
    /\ tdone = <<>>
    /\ ub = FALSE

CodecInit ==
    /\ event \in CodecEvents
    /\ message = <<>>
    /\ decoded = <<>>
    /\ step = "start"
    /\ ParserIdle
    /\ CtxIdle
    /\ WriterIdle
    /\ ThreadsIdle

\* message = formatEvent(event)
FormatStep ==
    /\ step = "start"
    /\ message' = FormatEvent(event)
    /\ step' = "formatted"
    /\ UNCHANGED <<event, decoded, parserVars, ctxVars, writerVars, threadVars>>

\* A fresh parser's parse(message): the events its callback received.
DecodeStep ==
    /\ step = "formatted"
    /\ decoded' = ParserParse(NewParser, message).p.out
    /\ step' = "decoded"
    /\ UNCHANGED <<event, message, parserVars, ctxVars, writerVars, threadVars>>

CodecNext == FormatStep \/ DecodeStep

SpecCodec == CodecInit /\ [][CodecNext]_vars

-----------------------------------------------------------------------------
(* One SseEventParser fed a stream in fragments *)

ParserBlocks ==
    { <<<<"d", "a", "t", "a", ":", "a">>, <<>>>>,
      <<<<"e", "v", "e", "n", "t", ":", "x">>,
        <<"d", "a", "t", "a", ":", SP, "b">>, <<>>>>,
      <<<<"i", "d", ":", "1">>, <<"d", "a", "t", "a", ":", "a">>,
        <<"d", "a", "t", "a", ":">>, <<>>>>,
      <<<<":", "c">>, <<>>>>,
      <<<<"r", "e", "t", "r", "y", ":", "5">>, <<>>>>,
      <<<<"d", "a", "t", "a">>, <<"d", "a", "t", "a", ":", "b">>, <<>>>> }

\* The lines of a block, each followed by eol.
RECURSIVE JoinLines(_, _)
JoinLines(lines, eol) ==
    IF lines = <<>> THEN <<>>
    ELSE Head(lines) \o eol \o JoinLines(Tail(lines), eol)

RECURSIVE BlockSeqs(_)
BlockSeqs(n) ==
    IF n = 0 THEN {<<>>}
    ELSE LET shorter == BlockSeqs(n - 1) IN
         shorter \cup {b \o s : b \in ParserBlocks, s \in shorter}

ParserStreams ==
    {JoinLines(ls, eol) : ls \in BlockSeqs(MaxBlocks),
                          eol \in {<<LF>>, <<CR, LF>>}}

ParserInit ==
    /\ parser = NewParser
    /\ pbuf = <<>>
    /\ stream \in ParserStreams
    /\ ppos = 0
    /\ fed = <<>>
    /\ CodecIdle
    /\ CtxIdle
    /\ WriterIdle
    /\ ThreadsIdle

\* The next k bytes arrive in the buffer and SseEventParser::parse runs on
\* it; what parse does not retrieve stays in the buffer.
ParserFeed(k) ==
    LET r == ParserParse(parser, pbuf \o SubSeq(stream, ppos + 1, ppos + k)) IN
    /\ parser' = r.p
    /\ pbuf' = r.buf
    /\ ppos' = ppos + k
    /\ UNCHANGED <<stream, fed, codecVars, ctxVars, writerVars, threadVars>>

ParserNext == \E k \in FragSizes(Len(stream) - ppos) : ParserFeed(k)

SpecParser == ParserInit /\ [][ParserNext]_vars

-----------------------------------------------------------------------------
(* One SseEventParser given one line at a time *)

\* The lines the peer sends: the blank line, a comment, data, event, id and
\* retry lines with and without a usable value, and an unknown field.
Heartbeat == <<":", "h", "e", "a", "r", "t", "b", "e", "a", "t">>

LineInputs ==
    { <<>>,
      Heartbeat,
      <<"d", "a", "t", "a", ":", "a">>,
      <<"d", "a", "t", "a", ":">>,
      <<"e", "v", "e", "n", "t", ":", "x">>,
      <<"e", "v", "e", "n", "t", ":">>,
      <<"i", "d", ":", "1">>,
      <<"i", "d", ":", "2", NUL>>,
      <<"r", "e", "t", "r", "y", ":", "5">>,
      <<"r", "e", "t", "r", "y", ":", "5", "x">>,
      <<"r", "e", "t", "r", "y", ":">>,
      <<"f", "o", "o", ":", "a">> }

LinesInit ==
    /\ parser = NewParser
    /\ pbuf = <<>>
    /\ stream = <<>>
    /\ ppos = 0
    /\ fed = <<>>
    /\ CodecIdle
    /\ CtxIdle
    /\ WriterIdle
    /\ ThreadsIdle

\* A line and its LF arrive and SseEventParser::parse runs on the buffer.
FeedLine(line) ==
    LET r == ParserParse(parser, pbuf \o line \o <<LF>>) IN
    /\ Len(fed) < MaxLines
    /\ parser' = r.p
    /\ pbuf' = r.buf
    /\ stream' = stream \o line \o <<LF>>
    /\ ppos' = ppos + Len(line) + 1
    /\ fed' = Append(fed, [op |-> "line", line |-> line])
    /\ UNCHANGED <<codecVars, ctxVars, writerVars, threadVars>>

\* The owner of the parser calls reset.
CallReset ==
    /\ Len(fed) < MaxLines
    /\ parser' = ParserReset(parser)
    /\ fed' = Append(fed, [op |-> "reset", line |-> <<>>])
    /\ UNCHANGED <<pbuf, stream, ppos, codecVars, ctxVars, writerVars,
                   threadVars>>

LinesNext == (\E line \in LineInputs : FeedLine(line)) \/ CallReset

SpecLines == LinesInit /\ [][LinesNext]_vars

-----------------------------------------------------------------------------
(* One SseClientContext and the response that arrives on its connection *)

StatusLine ==
    <<"H", "T", "T", "P", "/", "1", ".", "1", SP, "2", "0", "0", SP,
    "O", "K">>

H_TransferEncoding ==
    <<"T", "r", "a", "n", "s", "f", "e", "r", "-", "E", "n", "c", "o",
    "d", "i", "n", "g", ":", SP, "c", "h", "u", "n", "k", "e", "d">>

\* A status line without a status code.
StatusLineBare == <<"H", "T", "T", "P", "/", "1", ".", "1">>

\* A status line without a reason phrase, and one whose status token
\* converts to 0.
StatusLineNoReason ==
    <<"H", "T", "T", "P", "/", "1", ".", "1", SP, "2", "0", "0">>

StatusLineZero ==
    <<"H", "T", "T", "P", "/", "1", ".", "1", SP, "0", SP, "O", "K">>

\* A chunk-size line that does not start with a hexadecimal digit.
BadSizeLine == <<"z">>

\* A Content-Length that ends the body after the first event of Payload.
ShortLength == 16

\* The same header as another server writes it.
H_TransferEncodingUpper ==
    <<"T", "R", "A", "N", "S", "F", "E", "R", "-", "E", "N", "C", "O",
    "D", "I", "N", "G", ":", SP, "C", "H", "U", "N", "K", "E", "D">>

H_ContentLength ==
    <<"C", "o", "n", "t", "e", "n", "t", "-", "L", "e", "n", "g", "t",
    "h", ":", SP>>

Payload ==
    <<"e", "v", "e", "n", "t", ":", "x", LF, "d", "a", "t", "a", ":",
    "b", LF, LF, "d", "a", "t", "a", ":", "c", LF, LF>>

CRLF == <<CR, LF>>

\* The hexadecimal digits of a chunk size.
RECURSIVE NatToHex(_)
NatToHex(n) ==
    IF n < 16 THEN <<HexDigits[n + 1]>>
    ELSE NatToHex(n \div 16) \o <<HexDigits[(n % 16) + 1]>>

\* The payload cut in two chunks after its first `at` bytes (one chunk when
\* at is 0).
CutAt(p, at) ==
    IF at = 0 THEN <<p>> ELSE <<SubSeq(p, 1, at), Substr(p, at + 1)>>

\* Where the servers of the model cut the payload: nowhere, between its two
\* events, and in the middle of the line "data:c".
ChunkCuts == {0, 16, 19}

\* A response: its status line, the framing its server uses, the header
\* that announces it (<<>> when there is none), the payload in chunks, and
\* the value of Content-Length.
Responses ==
    {[status |-> StatusLine, framing |-> "chunked",
      header |-> H_TransferEncoding,
      chunks |-> CutAt(Payload, at), length |-> 0] : at \in ChunkCuts}
    \cup {[status |-> StatusLine, framing |-> "chunked",
           header |-> H_TransferEncodingUpper,
           chunks |-> <<Payload>>, length |-> 0],
          [status |-> StatusLine, framing |-> "length",
           header |-> H_ContentLength \o IntToStr(Len(Payload)),
           chunks |-> <<Payload>>, length |-> Len(Payload)],
          [status |-> StatusLine, framing |-> "length",
           header |-> H_ContentLength \o IntToStr(0),
           chunks |-> <<>>, length |-> 0],
          [status |-> StatusLine, framing |-> "none", header |-> <<>>,
           chunks |-> <<Payload>>, length |-> 0],
          [status |-> StatusLineBare, framing |-> "chunked",
           header |-> H_TransferEncoding, chunks |-> <<>>, length |-> 0],
          [status |-> StatusLineNoReason, framing |-> "length",
           header |-> H_ContentLength \o IntToStr(0),
           chunks |-> <<>>, length |-> 0],
          [status |-> StatusLineZero, framing |-> "length",
           header |-> H_ContentLength \o IntToStr(0),
           chunks |-> <<>>, length |-> 0],
          [status |-> StatusLine, framing |-> "length",
           header |-> H_ContentLength \o IntToStr(ShortLength),
           chunks |-> <<Payload>>, length |-> ShortLength],
          [status |-> StatusLine, framing |-> "badsize",
           header |-> H_TransferEncoding,
           chunks |-> <<Payload>>, length |-> 0]}

RECURSIVE Concat(_)
Concat(seqs) == IF seqs = <<>> THEN <<>> ELSE Head(seqs) \o Concat(Tail(seqs))

RECURSIVE ChunkedBody(_)
ChunkedBody(chunks) ==
    IF chunks = <<>> THEN <<"0">> \o CRLF \o CRLF
    ELSE NatToHex(Len(Head(chunks))) \o CRLF \o Head(chunks) \o CRLF
         \o ChunkedBody(Tail(chunks))

\* The bytes of a response on the wire.
Wire(r) ==
    r.status \o CRLF
    \o (IF r.header # <<>> THEN r.header \o CRLF ELSE <<>>)
    \o CRLF
    \o (IF r.framing = "chunked" THEN ChunkedBody(r.chunks)
        ELSE IF r.framing = "badsize"
        THEN BadSizeLine \o CRLF \o ChunkedBody(r.chunks)
        ELSE Concat(r.chunks))

\* The callbacks of the application: they call nothing back, or the headers
\* callback or the event callback closes the stream or marks it timed out.
Hooks ==
    {[on |-> "none", call |-> "none"],
     [on |-> "headers", call |-> "onClose"],
     [on |-> "event", call |-> "onClose"],
     [on |-> "event", call |-> "setTimedOut"]}

CtxInit ==
    /\ ctx = NewContext
    /\ buf = <<>>
    /\ log = <<>>
    /\ hist = <<"ExpectHeaders">>
    /\ resp \in Responses
    /\ wire = Wire(resp)
    /\ pos = 0
    /\ hook \in Hooks
    /\ parseRet = "none"
    /\ lateParses = 0
    /\ onCloseCalls = 0
    /\ CodecIdle
    /\ ParserIdle
    /\ WriterIdle
    /\ ThreadsIdle

Machine ==
    [c |-> ctx, buf |-> buf, log |-> log, hist |-> hist, ret |-> "true"]

\* The next k bytes arrive in the connection's buffer and parse is called
\* on it.
Receive(k) ==
    LET m == Parse([Machine EXCEPT
                       !.buf = @ \o SubSeq(wire, pos + 1, pos + k)], hook)
    IN  /\ ctx.status_ = "Closed" => lateParses < MaxLateParses
        /\ ctx' = m.c
        /\ buf' = m.buf
        /\ log' = m.log
        /\ hist' = m.hist
        /\ parseRet' = m.ret
        /\ pos' = pos + k
        /\ lateParses' = IF ctx.status_ = "Closed" THEN lateParses + 1
                         ELSE lateParses
        /\ UNCHANGED <<resp, wire, hook, onCloseCalls, codecVars, parserVars,
                       writerVars, threadVars>>

ReceiveSome == \E k \in FragSizes(Len(wire) - pos) : Receive(k)

\* The owner of the context calls onClose (the connection closed, or the
\* timeout fired).
CallOnClose ==
    LET m == OnClose(Machine) IN
    /\ onCloseCalls < MaxOnCloseCalls
    /\ onCloseCalls' = onCloseCalls + 1
    /\ ctx' = m.c
    /\ log' = m.log
    /\ hist' = m.hist
    /\ UNCHANGED <<buf, resp, wire, pos, hook, parseRet, lateParses,
                   codecVars, parserVars, writerVars, threadVars>>

\* The timer calls setTimedOut.
CallSetTimedOut ==
    /\ ctx' = SetTimedOut(Machine).c
    /\ UNCHANGED <<buf, log, hist, resp, wire, pos, hook, parseRet, lateParses,
                   onCloseCalls, codecVars, parserVars, writerVars, threadVars>>

\* The owner calls setClosed.
CallSetClosed ==
    /\ ctx' = SetClosed(Machine).c
    /\ hist' = SetClosed(Machine).hist
    /\ UNCHANGED <<buf, log, resp, wire, pos, hook, parseRet, lateParses,
                   onCloseCalls, codecVars, parserVars, writerVars, threadVars>>

Next == ReceiveSome \/ CallOnClose \/ CallSetTimedOut \/ CallSetClosed

Spec == CtxInit /\ [][Next]_vars

-----------------------------------------------------------------------------
(* One SseWriter called from one thread *)

WriterEvents ==
    {[event_ |-> <<>>, data_ |-> <<"a">>, id_ |-> <<>>, retry_ |-> 0],
     [event_ |-> <<"x">>, data_ |-> <<"a", LF, "b">>, id_ |-> <<"1">>,
      retry_ |-> 0]}

WriterComments ==
    {<<>>, <<"h", "i">>, <<"h", "i", LF, "d", "a", "t", "a", ":", "y">>}

WriterRetries == {3000}

\* A writer is constructed on a stream, or on a null pointer.
WriterInit ==
    /\ writer \in {NewWriter(TRUE), NewWriter(FALSE)}
    /\ wstream = NewStream
    /\ wret = "none"
    /\ wcalls = 0
    /\ closeReturned = FALSE
    /\ wlast = NoCall
    /\ CodecIdle
    /\ ParserIdle
    /\ CtxIdle
    /\ ThreadsIdle

WriterMachine == [w |-> writer, s |-> wstream, ret |-> "none"]

\* The call of member op with argument arg returns W; no call is made on a
\* writer that has been destroyed.
WriterCall(W, op, arg, up) ==
    /\ wcalls < MaxWriterCalls
    /\ wlast.op # "destroy"
    /\ wcalls' = wcalls + 1
    /\ wlast' = [op |-> op, arg |-> arg, up |-> up]
    /\ writer' = W.w
    /\ wstream' = W.s
    /\ wret' = W.ret
    /\ closeReturned' = (closeReturned \/ W.ret = "void")
    /\ UNCHANGED <<codecVars, parserVars, ctxVars, threadVars>>

CallSend ==
    \E ev \in WriterEvents, up \in BOOLEAN :
        WriterCall(WriterSend(WriterMachine, ev, up), "send", ev, up)

CallSendComment ==
    \E comment \in WriterComments, up \in BOOLEAN :
        WriterCall(WriterSendComment(WriterMachine, comment, up),
                   "sendComment", comment, up)

CallSendRetry ==
    \E retryMs \in WriterRetries, up \in BOOLEAN :
        WriterCall(WriterSendRetry(WriterMachine, retryMs, up),
                   "sendRetry", retryMs, up)

CallClose == WriterCall(WriterClose(WriterMachine), "close", <<>>, FALSE)

\* The last owner lets go of the writer: ~SseWriter calls close().
CallDestroy == WriterCall(WriterClose(WriterMachine), "destroy", <<>>, FALSE)

WriterNext ==
    CallSend \/ CallSendComment \/ CallSendRetry \/ CallClose \/ CallDestroy

SpecWriter == WriterInit /\ [][WriterNext]_vars

-----------------------------------------------------------------------------
(* Threads calling onClose on one SseClientContext, statement by statement *)

NoHook == [on |-> "none", call |-> "none"]

\* The contexts the calls may find: as constructed or with the body of an
\* unbounded response read, timed out or not.
RaceMachines ==
    LET fresh == [c |-> NewContext, buf |-> <<>>, log |-> <<>>,
                  hist |-> <<"ExpectHeaders">>, ret |-> "true"]
        read == Parse([fresh EXCEPT
                         !.buf = Wire([status |-> StatusLine,
                                       framing |-> "none", header |-> <<>>,
                                       chunks |-> <<Payload>>,
                                       length |-> 0])], NoHook)
    IN  {fresh, SetTimedOut(fresh), read, SetTimedOut(read)}

ThreadsInit ==
    /\ tpc = [t \in Threads |-> "idle"]
    /\ top = [t \in Threads |-> "none"]
    /\ tdone = [t \in Threads |-> 0]
    /\ ub = FALSE

OnCloseRaceInit ==
    /\ \E m \in RaceMachines :
        /\ ctx = m.c
        /\ log = m.log
        /\ hist = m.hist
    /\ buf = <<>>
    /\ resp = [status |-> <<>>, framing |-> "none", header |-> <<>>,
             chunks |-> <<>>, length |-> 0]
    /\ wire = <<>>
    /\ pos = 0
    /\ hook = NoHook
    /\ parseRet = "none"
    /\ lateParses = 0
    /\ onCloseCalls = 0
    /\ ThreadsInit
    /\ CodecIdle
    /\ ParserIdle
    /\ WriterIdle

OnCloseFrame ==
    UNCHANGED <<buf, resp, wire, pos, hook, parseRet, lateParses,
                onCloseCalls, top, ub, codecVars, parserVars, writerVars>>

\* A thread calls onClose.
OnCloseBegin(t) ==
    /\ tpc[t] = "idle"
    /\ tdone[t] < MaxThreadCalls
    /\ tpc' = [tpc EXCEPT ![t] = "check"]
    /\ UNCHANGED <<ctx, log, hist, tdone>>
    /\ OnCloseFrame

\* if (closedCallbackInvoked_) return;
OnCloseCheck(t) ==
    /\ tpc[t] = "check"
    /\ IF ctx.closedCallbackInvoked_
       THEN /\ tpc' = [tpc EXCEPT ![t] = "idle"]
            /\ tdone' = [tdone EXCEPT ![t] = @ + 1]
       ELSE /\ tpc' = [tpc EXCEPT ![t] = "set"]
            /\ UNCHANGED tdone
    /\ UNCHANGED <<ctx, log, hist>>
    /\ OnCloseFrame

\* closedCallbackInvoked_ = true;
OnCloseSet(t) ==
    /\ tpc[t] = "set"
    /\ ctx' = [ctx EXCEPT !.closedCallbackInvoked_ = TRUE]
    /\ tpc' = [tpc EXCEPT ![t] = "status"]
    /\ UNCHANGED <<log, hist, tdone>>
    /\ OnCloseFrame

\* status_ = Status::Closed;
OnCloseStatus(t) ==
    LET m == SetStatus(Machine, "Closed") IN
    /\ tpc[t] = "status"
    /\ ctx' = m.c
    /\ hist' = m.hist
    /\ tpc' = [tpc EXCEPT ![t] = "callback"]
    /\ UNCHANGED <<log, tdone>>
    /\ OnCloseFrame

\* closedCallback_(result, responsePtr_); and the call returns.
OnCloseCallback(t) ==
    /\ tpc[t] = "callback"
    /\ log' = Append(log, Note("closed", NewEvent))
    /\ tpc' = [tpc EXCEPT ![t] = "idle"]
    /\ tdone' = [tdone EXCEPT ![t] = @ + 1]
    /\ UNCHANGED <<ctx, hist>>
    /\ OnCloseFrame

OnCloseRaceNext ==
    \E t \in Threads :
        \/ OnCloseBegin(t)
        \/ OnCloseCheck(t)
        \/ OnCloseSet(t)
        \/ OnCloseStatus(t)
        \/ OnCloseCallback(t)

SpecOnCloseRace == OnCloseRaceInit /\ [][OnCloseRaceNext]_vars

-----------------------------------------------------------------------------
(* Threads calling send and close on one SseWriter, statement by statement *)

WriterRaceInit ==
    /\ writer = NewWriter(TRUE)
    /\ wstream = NewStream
    /\ wret = "none"
    /\ wcalls = 0
    /\ closeReturned = FALSE
    /\ wlast = NoCall
    /\ ThreadsInit
    /\ CodecIdle
    /\ ParserIdle
    /\ CtxIdle

WriterRaceFrame ==
    UNCHANGED <<wret, wcalls, wlast, codecVars, parserVars, ctxVars>>

\* The call of thread t returns.
Return(t) ==
    /\ tpc' = [tpc EXCEPT ![t] = "idle"]
    /\ tdone' = [tdone EXCEPT ![t] = @ + 1]

Goto(t, label) ==
    /\ tpc' = [tpc EXCEPT ![t] = label]
    /\ UNCHANGED tdone

\* A thread calls send (the producer) or close.
WriterBegin(t) ==
    /\ ~ub
    /\ tpc[t] = "idle"
    /\ tdone[t] < MaxThreadCalls
    /\ \E op \in {"send", "close"} :
        /\ top' = [top EXCEPT ![t] = op]
        /\ tpc' = [tpc EXCEPT ![t] = "stream"]
    /\ UNCHANGED <<writer, wstream, closeReturned, tdone, ub>>
    /\ WriterRaceFrame

\* The first operand of the guard, "!stream_" in send and "stream_" in
\* close: the call returns when stream_ is null.
GuardStream(t) ==
    /\ ~ub
    /\ tpc[t] = "stream"
    /\ IF writer.stream_ THEN Goto(t, "closed") ELSE Return(t)
    /\ closeReturned' = (closeReturned \/ (~writer.stream_ /\ top[t] = "close"))
    /\ UNCHANGED <<writer, wstream, top, ub>>
    /\ WriterRaceFrame

\* The second operand, "closed_" in send and "!closed_" in close: the call
\* returns when closed_ is set.
GuardClosed(t) ==
    /\ ~ub
    /\ tpc[t] = "closed"
    /\ IF writer.closed_ THEN Return(t)
       ELSE Goto(t, IF top[t] = "send" THEN "write" ELSE "mark")
    /\ closeReturned' = (closeReturned \/ (writer.closed_ /\ top[t] = "close"))
    /\ UNCHANGED <<writer, wstream, top, ub>>
    /\ WriterRaceFrame

\* return stream_->send(message); when stream_ has become null the call is
\* made through a null pointer: the process stops, or the call runs on the
\* stream that close() released.
SendWrite(t) ==
    /\ ~ub
    /\ tpc[t] = "write"
    /\ \E up \in BOOLEAN, crash \in BOOLEAN :
        IF writer.stream_ \/ ~crash
        THEN /\ wstream' = StreamSend(WriterMachine,
                                      FormatEvent(NewEvent), up).s
             /\ ub' = (ub \/ ~writer.stream_)
             /\ Return(t)
        ELSE /\ ub' = TRUE
             /\ UNCHANGED <<wstream, tpc, tdone>>
    /\ UNCHANGED <<writer, closeReturned, top>>
    /\ WriterRaceFrame

\* closed_ = true;
CloseMark(t) ==
    /\ ~ub
    /\ tpc[t] = "mark"
    /\ writer' = [writer EXCEPT !.closed_ = TRUE]
    /\ Goto(t, "close")
    /\ UNCHANGED <<wstream, closeReturned, top, ub>>
    /\ WriterRaceFrame

\* stream_->close(); through a null pointer as in SendWrite.
CloseStream(t) ==
    /\ ~ub
    /\ tpc[t] = "close"
    /\ \E crash \in BOOLEAN :
        IF writer.stream_ \/ ~crash
        THEN /\ wstream' = StreamClose(WriterMachine).s
             /\ ub' = (ub \/ ~writer.stream_)
             /\ Goto(t, "reset")
        ELSE /\ ub' = TRUE
             /\ UNCHANGED <<wstream, tpc, tdone>>
    /\ UNCHANGED <<writer, closeReturned, top>>
    /\ WriterRaceFrame

\* stream_.reset(); and the call returns.
CloseReset(t) ==
    /\ ~ub
    /\ tpc[t] = "reset"
    /\ writer' = [writer EXCEPT !.stream_ = FALSE]
    /\ closeReturned' = TRUE
    /\ Return(t)
    /\ UNCHANGED <<wstream, top, ub>>
    /\ WriterRaceFrame

WriterRaceNext ==
    \E t \in Threads :
        \/ WriterBegin(t)
        \/ GuardStream(t)
        \/ GuardClosed(t)
        \/ SendWrite(t)
        \/ CloseMark(t)
        \/ CloseStream(t)
        \/ CloseReset(t)

SpecWriterRace == WriterRaceInit /\ [][WriterRaceNext]_vars

-----------------------------------------------------------------------------
(* Claims *)

\* C1: every Event with non-empty data, formatted by formatEvent and parsed
\* by a fresh SseEventParser, comes back as exactly one event with the same
\* type, data, id and retry.
RoundTrip ==
    (step = "decoded" /\ event.data_ # <<>>) => decoded = <<event>>

\* C2: after any number of parse calls on fragments of the stream, with the
\* unread remainder kept in the buffer, the parser (pending event, sticky id,
\* events dispatched so far) and the buffer are what one parse call on all
\* the bytes received so far gives.
FragmentationIndependent ==
    LET whole == ParserParse(NewParser, SubSeq(stream, 1, ppos)) IN
    /\ parser = whole.p
    /\ pbuf = whole.buf

\* A fragment ended between a CR and its LF, after an event was dispatched:
\* the CR waits in the buffer behind the bytes of its line.
SplitInsideCRLF ==
    /\ parser.out # <<>>
    /\ Len(pbuf) > 1
    /\ pbuf[Len(pbuf)] = CR
    /\ ppos < Len(stream)
    /\ stream[ppos + 1] = LF

\* The events the event callback received, and how often the closed callback
\* ran.
Delivered(l) == SelectSeq(l, LAMBDA n : n.cb = "event")
ClosedCount(l) == Len(SelectSeq(l, LAMBDA n : n.cb = "closed"))

\* C3: once a chunked response has arrived whole, however it was cut in
\* chunks and fragmented over parse calls, the events the event callback
\* received are those a fresh SseEventParser dispatches for the unwrapped
\* payload in one buffer (nobody having closed or timed out the context).
ChunkedTransparent ==
    (/\ resp.framing = "chunked"
     /\ ctx.isChunked_
     /\ pos = Len(wire)
     /\ hook.on = "none"
     /\ ~ctx.timedOut_
     /\ ~ctx.closedCallbackInvoked_
     /\ lateParses = 0)
    => [i \in 1..Len(Delivered(log)) |-> Delivered(log)[i].ev]
         = ParserParse(NewParser, Concat(resp.chunks)).p.out

\* C4: every onClose call leaves the status Closed and the closed callback
\* invoked exactly once over all the calls so far.
OnCloseIdempotent ==
    [][onCloseCalls' # onCloseCalls =>
        (ctx'.status_ = "Closed" /\ ClosedCount(log') = 1)]_vars

\* C8: nothing is invoked after the closed callback: its entry, if there is
\* one, is the last of the record of callbacks.
NoCallbackAfterClose ==
    \A i \in 1..Len(log) : log[i].cb = "closed" => i = Len(log)

\* What the framing and the decoder keep: the framing counters, the parser
\* and the unread bytes.
Framing(c, b) ==
    <<c.isChunked_, c.currentChunkLength_, c.expectChunkLength_,
      c.contentLength_, c.bytesRead_, c.eventParser_, b>>

\* C9: in a context that has timed out, no step delivers an event; a parse
\* call moves the framing counters, the decoder and the buffer exactly as it
\* would had the timeout not happened; and after an onClose the closed
\* callback has run exactly once.
TimeoutSwallows ==
    [][ctx.timedOut_ =>
        /\ Delivered(log') = Delivered(log)
        /\ pos' # pos =>
             LET m == Parse([Machine EXCEPT
                               !.c.timedOut_ = FALSE,
                               !.buf = @ \o SubSeq(wire, pos + 1, pos')], hook)
             IN  Framing(ctx', buf') = Framing(m.c, m.buf)
        /\ onCloseCalls' # onCloseCalls => ClosedCount(log') = 1]_vars

\* Timed out with an event swallowed (the parser dispatched more events than
\* the callback received) and the closed callback run once.
SwallowedThenClosed ==
    /\ ctx.timedOut_
    /\ ctx.eventParser_ # <<>>
    /\ Len(ctx.eventParser_[1].out) > Len(Delivered(log))
    /\ ClosedCount(log) = 1

\* C10: the status only moves forward along ExpectHeaders, ExpectBody,
\* Closed: once Closed it takes no other value, and after ExpectBody it is
\* never ExpectHeaders again.
StatusForwardOnly ==
    \A i \in 1..Len(hist) : \A j \in (i + 1)..Len(hist) :
        /\ hist[i] = "Closed" => hist[j] = "Closed"
        /\ hist[i] = "ExpectBody" => hist[j] # "ExpectHeaders"

\* C6: once close() has returned on a writer, isOpen() is false after every
\* step, and every later call returns false (close returns nothing) and
\* leaves the stream as it was: nothing written, nothing closed.
ClosedStaysClosed ==
    [][/\ closeReturned' => ~IsOpen(writer')
       /\ closeReturned =>
            (wret' \in {"false", "void"} /\ wstream' = wstream)]_vars

\* A send wrote through the stream, close closed it, and a later send
\* returned false.
SendAfterClose ==
    /\ closeReturned
    /\ wret = "false"
    /\ wstream.writes # <<>>
    /\ wstream.closeCalls = 1

\* C5: when threads run onClose on one context at the same time, the closed
\* callback is invoked at most once.
ClosedAtMostOnce == ClosedCount(log) <= 1

\* C7: when threads run send and close on one writer at the same time, no
\* send writes through the stream after close() has closed or released it,
\* and the stream is not closed twice.
GuardPreventsRace ==
    /\ wstream.lateWrites = 0
    /\ wstream.closeCalls <= 1

\* C11: a parse call on a context whose status is Closed returns false,
\* leaves every byte in the buffer, invokes no callback and changes nothing
\* of the context.
ParseClosedNoOp ==
    [][(ctx.status_ = "Closed" /\ pos' # pos) =>
        /\ parseRet' = "false"
        /\ buf' = buf \o SubSeq(wire, pos + 1, pos')
        /\ log' = log
        /\ ctx' = ctx
        /\ hist' = hist]_vars

ParsedWhileClosed ==
    /\ lateParses > 0
    /\ ctx.status_ = "Closed"
    /\ parseRet = "false"
    /\ buf # <<>>

HeadersCount(l) == Len(SelectSeq(l, LAMBDA n : n.cb = "headers"))

\* The offset of the last byte of the blank line that ends the header block.
HeaderEnd ==
    (CHOOSE i \in 1..(Len(wire) - 3) :
        /\ SubSeq(wire, i, i + 3) = CRLF \o CRLF
        /\ \A j \in 1..(i - 1) : SubSeq(wire, j, j + 3) # CRLF \o CRLF) + 3

StatusValues(h) == {h[i] : i \in 1..Len(h)}

\* C12: the headers callback is invoked at most once, in the parse step that
\* consumes the blank line ending the header block while the status is
\* ExpectHeaders; that step makes the status ExpectBody, and no event
\* callback comes before the headers callback.
HeadersOnce ==
    [][/\ HeadersCount(log') <= 1
       /\ (HeadersCount(log') # HeadersCount(log)) =>
            /\ ctx.status_ = "ExpectHeaders"
            /\ pos < HeaderEnd /\ HeaderEnd <= pos'
            /\ "ExpectBody" \in StatusValues(hist') \ StatusValues(hist)
       /\ (/\ ctx.status_ = "ExpectHeaders"
           /\ pos < HeaderEnd /\ HeaderEnd <= pos'
           /\ parseRet' = "true") =>
            HeadersCount(log') = HeadersCount(log) + 1
       /\ \A i \in 1..Len(log') : log'[i].cb = "event" =>
            \E j \in 1..(i - 1) : log'[j].cb = "headers"]_vars

\* The header block arrived in several parse calls (no fragment but the last
\* is longer than MaxFrag), the callback ran once and an event followed.
HeadersFragmented ==
    /\ pos < Len(wire)
    /\ HeadersCount(log) = 1
    /\ Delivered(log) # <<>>

Last(q) == q[Len(q)]

Front(q) == SubSeq(q, 1, Len(q) - 1)

IsBlank(x) == x.op = "line" /\ x.line = <<>>

IsComment(x) == x.op = "line" /\ x.line # <<>> /\ x.line[1] = ":"

\* The field lines given to the parser since the last blank line or reset.
RECURSIVE Block(_)
Block(f) ==
    IF f = <<>> \/ Last(f).op = "reset" \/ IsBlank(Last(f)) THEN <<>>
    ELSE IF IsComment(Last(f)) THEN Block(Front(f))
    ELSE Append(Block(Front(f)), Last(f).line)

\* C13: a line that begins with ':' leaves the parser as it was (no event
\* delivered, pending event and last event id unchanged), and ":heartbeat"
\* followed by a blank line, given to a fresh parser, delivers nothing.
CommentIgnored ==
    [][/\ (fed' # fed /\ IsComment(Last(fed'))) => parser' = parser
       /\ (/\ Len(fed') = 2
           /\ fed'[1] = [op |-> "line", line |-> Heartbeat]
           /\ IsBlank(fed'[2])) => parser'.out = <<>>]_vars

CommentWhilePending ==
    /\ fed # <<>>
    /\ IsComment(Last(fed))
    /\ parser.currentEvent_.data_ # <<>>
    /\ parser.lastEventId_ # <<>>

\* Whether no line of the block gives the event a type.
NoType(block) ==
    \A i \in 1..Len(block) :
        LineField(block[i]) = S_event => LineValue(block[i]) = <<>>

\* C15: an event is delivered exactly by a blank line that finds the pending
\* data non-empty, and its type is "message" when its block has no event
\* line or only event lines with an empty value.
DispatchRule ==
    [][fed' # fed =>
        IF IsBlank(Last(fed')) /\ parser.currentEvent_.data_ # <<>>
        THEN /\ Front(parser'.out) = parser.out
             /\ Len(parser'.out) = Len(parser.out) + 1
             /\ NoType(Block(fed)) => Last(parser'.out).event_ = S_message
        ELSE parser'.out = parser.out]_vars

DefaultTypeDispatched ==
    /\ fed # <<>>
    /\ IsBlank(Last(fed))
    /\ parser.out # <<>>
    /\ Last(parser.out).event_ = S_message
    /\ \E i \in 1..Len(Block(Front(fed))) :
        Block(Front(fed))[i] = S_event \o <<":">>

\* The value of the most recent id line without a NUL, or the empty string.
RECURSIVE LastValidId(_)
LastValidId(f) ==
    IF f = <<>> THEN <<>>
    ELSE LET x == Last(f) IN
         IF /\ x.op = "line" /\ ~IsBlank(x) /\ ~IsComment(x)
            /\ LineField(x.line) = S_id
            /\ \A i \in 1..Len(LineValue(x.line)) : LineValue(x.line)[i] # NUL
         THEN LineValue(x.line)
         ELSE LastValidId(Front(f))

\* C16: lastEventId is the value of the most recent id line whose value has
\* no NUL byte, or empty when there was none.
StickyLastId == parser.lastEventId_ = LastValidId(fed)

IdOutlivesEvent ==
    /\ parser.lastEventId_ = <<"1">>
    /\ parser.out # <<>>
    /\ Last(parser.out).id_ = <<>>

\* The values of the data lines of a block, joined with LF.
RECURSIVE JoinedData(_)
JoinedData(block) ==
    IF block = <<>> THEN <<>>
    ELSE LET rest == JoinedData(Front(block))
             line == Last(block)
             seen == \E i \in 1..(Len(block) - 1) :
                        LineField(block[i]) = S_data
         IN  IF LineField(line) # S_data THEN rest
             ELSE IF seen THEN rest \o <<LF>> \o LineValue(line)
             ELSE LineValue(line)

\* C17: the data of a delivered event is the values of the data lines of its
\* block, in order, joined with LF, empty values included.
DataJoined ==
    [][(fed' # fed /\ Len(parser'.out) > Len(parser.out)) =>
        Last(parser'.out).data_ = JoinedData(Block(fed))]_vars

\* Lines that the parser is to ignore: an unknown field, an id with a NUL, a
\* retry that is empty or has a byte that is no digit.
Ignorable(x) ==
    /\ x.op = "line" /\ ~IsBlank(x) /\ ~IsComment(x)
    /\ LET field == LineField(x.line)
           value == LineValue(x.line)
       IN  \/ field \notin {S_event, S_data, S_id, S_retry}
           \/ field = S_id /\ \E i \in 1..Len(value) : value[i] = NUL
           \/ field = S_retry /\
                (value = <<>> \/ \E i \in 1..Len(value) :
                    value[i] \notin {"0", "1", "2", "3", "4", "5", "6", "7",
                                     "8", "9"})

\* The parser after the lines and resets of f, given one by one.
RECURSIVE Replay(_)
Replay(f) ==
    IF f = <<>> THEN NewParser
    ELSE IF Last(f).op = "reset" THEN ParserReset(Replay(Front(f)))
    ELSE ProcessLine(Replay(Front(f)), Last(f).line)

\* C18: a line with an unknown field, an id with a NUL or an invalid retry
\* leaves the parser as it was, and at each blank line the parser is where
\* the other lines alone would have brought it: they were applied and their
\* events delivered.
InvalidLinesIgnored ==
    [][fed' # fed =>
        /\ Ignorable(Last(fed')) => parser' = parser
        /\ IsBlank(Last(fed')) =>
            parser' = Replay(SelectSeq(fed', LAMBDA x : ~Ignorable(x)))]_vars

DispatchedDespiteInvalid ==
    /\ fed # <<>>
    /\ IsBlank(Last(fed))
    /\ Len(parser.out) = 1
    /\ parser.out[1].retry_ = 5
    /\ \E i \in 1..Len(fed) : Ignorable(fed[i])

\* C14: what sendComment writes is never dispatchable: a fresh parser given
\* the written bytes delivers no event.
CommentNotDispatchable ==
    \A i \in 1..Len(wstream.writes) :
        wstream.writes[i][1] = ":" =>
            ParserParse(NewParser, wstream.writes[i]).p.out = <<>>

\* C19: once the header block of a response with a Transfer-Encoding header
\* whose value is "chunked" in any case has been read, the context is in
\* chunked mode.
ChunkedAnyCase ==
    (resp.framing = "chunked" /\ HeadersCount(log) = 1) => ctx.isChunked_

\* C20: a parse call on a fixed-length response that nobody closes leaves the
\* context Closed exactly when the body bytes given to the context so far
\* are Content-Length or more.
FixedLengthCloses ==
    [][(/\ resp.framing = "length"
        /\ hook.on = "none"
        /\ ctx.status_ # "Closed"
        /\ pos' # pos
        /\ pos' >= HeaderEnd) =>
            (ctx'.status_ = "Closed" <=> pos' - HeaderEnd >= resp.length)]_vars

\* C21: for a response with neither framing header, a parse call leaves the
\* context Closed only if the closed callback ran in it (an onClose made by a
\* callback), and after the call the decoder has been given every body byte
\* that arrived: it is where a fresh decoder given all of them at once is,
\* the unfinished line waiting in the buffer.
UnboundedNeverCloses ==
    [][(/\ resp.framing = "none"
        /\ ctx.status_ # "Closed"
        /\ pos' # pos) =>
            /\ ctx'.status_ = "Closed" => ClosedCount(log') > ClosedCount(log)
            /\ pos' >= HeaderEnd =>
                LET r == ParserParse(NewParser,
                                     SubSeq(wire, HeaderEnd + 1, pos'))
                IN  /\ ctx'.eventParser_ = <<r.p>>
                    /\ buf' = r.buf]_vars

\* The whole unbounded response has been parsed, both events
\* were delivered and the context still expects body bytes.
UnboundedStillOpen ==
    /\ resp.framing = "none"
    /\ pos = Len(wire)
    /\ ctx.status_ = "ExpectBody"
    /\ Len(Delivered(log)) = 2
    /\ ClosedCount(log) = 0

\* A status line that lacks required tokens: it has no space, hence no
\* status code.
Malformed(line) == \A i \in 1..Len(line) : line[i] # SP

\* C22: a parse call that finds a malformed status line returns false, leaves
\* the status ExpectHeaders, invokes no callback, selects no framing mode and
\* takes nothing from the buffer.
MalformedStatusFails ==
    [][(/\ Malformed(resp.status)
        /\ ctx.status_ # "Closed"
        /\ pos' # pos
        /\ pos' >= Len(resp.status) + 2) =>
            /\ parseRet' = "false"
            /\ ctx'.status_ = "ExpectHeaders"
            /\ log' = log
            /\ ~ctx'.isChunked_
            /\ ctx'.contentLength_ = 0
            /\ ctx'.eventParser_ = <<>>
            /\ buf' = SubSeq(wire, 1, pos')]_vars

\* The whole response with the malformed status line has arrived and is
\* still in the buffer.
MalformedStatusSeen ==
    /\ Malformed(resp.status)
    /\ pos = Len(wire)
    /\ parseRet = "false"
    /\ ctx.status_ = "ExpectHeaders"
    /\ buf = wire

\* The lines of a byte string in which every line ends with LF.
RECURSIVE LinesOf(_)
LinesOf(b) ==
    IF b = <<>> THEN <<>>
    ELSE LET i == CHOOSE k \in 1..Len(b) :
                    b[k] = LF /\ \A j \in 1..(k - 1) : b[j] # LF
         IN  <<SubSeq(b, 1, i - 1)>> \o LinesOf(SubSeq(b, i + 1, Len(b)))

IsDataLine(line) == Len(line) >= 5 /\ SubSeq(line, 1, 5) = S_data \o <<":">>

\* C23: what formatEvent returns is "event:<type>" LF if the type is not
\* empty, "id:<id>" LF if the id is not empty, "retry:<ms>" LF if retry > 0,
\* then one or more lines that each start with "data:" (the single line
\* "data:" when the data is empty), then one blank line, and nothing else.
FormatLayout ==
    step \in {"formatted", "decoded"} =>
        LET head == (IF event.event_ # <<>>
                     THEN S_event \o <<":">> \o event.event_ \o <<LF>>
                     ELSE <<>>)
                    \o (IF event.id_ # <<>>
                        THEN S_id \o <<":">> \o event.id_ \o <<LF>> ELSE <<>>)
                    \o (IF event.retry_ > 0
                        THEN S_retry \o <<":">> \o NatToStr(event.retry_)
                             \o <<LF>>
                        ELSE <<>>)
            body == SubSeq(message, Len(head) + 1, Len(message) - 1)
        IN  /\ Len(message) >= Len(head) + 2
            /\ SubSeq(message, 1, Len(head)) = head
            /\ message[Len(message)] = LF
            /\ body[Len(body)] = LF
            /\ \A i \in 1..Len(LinesOf(body)) : IsDataLine(LinesOf(body)[i])
            /\ event.data_ = <<>> => body = S_data \o <<":", LF>>

\* An event with a type, an id, a retry and data of several lines has been
\* formatted.
FullEventFormatted ==
    /\ step = "formatted"
    /\ event.event_ # <<>>
    /\ event.id_ # <<>>
    /\ event.retry_ > 0
    /\ \E i \in 1..Len(event.data_) : event.data_[i] = LF

\* The number of LF-separated segments of non-empty data.
Segments(d) == Cardinality({i \in 1..Len(d) : d[i] = LF}) + 1

\* C26: for non-empty data of k segments separated by LF, the last one
\* possibly empty, formatEvent writes k data lines, and the decoder gives the
\* data back as it was.
DataLinePerSegment ==
    (step \in {"formatted", "decoded"} /\ event.data_ # <<>>) =>
        /\ Len(SelectSeq(LinesOf(message), IsDataLine)) = Segments(event.data_)
        /\ step = "decoded" =>
            (Len(decoded) = 1 /\ decoded[1].data_ = event.data_)

\* C24: a send on a writer without a stream or closed returns false and
\* writes nothing; any other send appends the formatted event, and nothing
\* else, to what the stream was given, closes nothing and returns what the
\* write reported; either way the writer is as open or closed as before.
SendContract ==
    [][(wcalls' # wcalls /\ wlast'.op = "send") =>
        /\ writer' = writer
        /\ IF ~writer.stream_ \/ writer.closed_
           THEN wret' = "false" /\ wstream' = wstream
           ELSE /\ wstream'.writes =
                     Append(wstream.writes, FormatEvent(wlast'.arg))
                /\ wstream'.closeCalls = wstream.closeCalls
                /\ wret' = IF wlast'.up THEN "true" ELSE "false"]_vars

\* A send whose write reported false has returned false and the writer is
\* still open.
SendFailedStillOpen ==
    /\ wlast.op = "send"
    /\ ~wlast.up
    /\ wret = "false"
    /\ wstream.writes # <<>>
    /\ IsOpen(writer)

\* C25: after every close() call, the destructor's included, the stream the
\* writer was constructed on has been closed exactly once, and a close()
\* after the first changes neither the writer nor the stream.
CloseIdempotent ==
    [][(wcalls' # wcalls /\ wlast'.op \in {"close", "destroy"}) =>
        /\ (writer.stream_ \/ wstream.closeCalls > 0) =>
                wstream'.closeCalls = 1
        /\ closeReturned => (writer' = writer /\ wstream' = wstream)]_vars

\* close() and then the destructor have run on a writer with a stream (no
\* send was made: nothing was written), and the stream was closed once.
ClosedThenDestroyed ==
    /\ wcalls = 2
    /\ wlast.op = "destroy"
    /\ wstream.writes = <<>>
    /\ wstream.closeCalls = 1

\* Whether a line of the block has the field name.
HasField(block, name) == \E i \in 1..Len(block) : LineField(block[i]) = name

\* C27: after every blank line the pending event is a fresh one, and an
\* event delivered at a blank line has the default type, no id and no retry
\* unless a line since the previous blank line set them.
FreshAfterBlank ==
    [][(fed' # fed /\ IsBlank(Last(fed'))) =>
        /\ parser'.currentEvent_ = NewEvent
        /\ Len(parser'.out) > Len(parser.out) =>
            LET e == Last(parser'.out)
                b == Block(fed)
            IN  /\ ~HasField(b, S_event) => e.event_ = S_message
                /\ ~HasField(b, S_id) => e.id_ = <<>>
                /\ ~HasField(b, S_retry) => e.retry_ = 0]_vars

\* A block that set a type, an id or a retry but no data was discarded, and
\* the next block, of one data line, was delivered.
DeliveredAfterDiscard ==
    /\ Len(fed) = 4
    /\ \E name \in {S_event, S_id, S_retry} :
        fed[1].op = "line" /\ HasField(<<fed[1].line>>, name)
    /\ IsBlank(fed[2])
    /\ fed[3].op = "line" /\ HasField(<<fed[3].line>>, S_data)
    /\ IsBlank(fed[4])
    /\ Len(parser.out) = 1

\* C28: an event object handed to the event callback keeps its type, data,
\* id and retry through every later line, dispatch and reset.
DeliveredNeverModified ==
    [][/\ Len(parser'.out) >= Len(parser.out)
       /\ \A i \in 1..Len(parser.out) : parser'.out[i] = parser.out[i]]_vars

\* After an event was delivered, a later line has written to the pending
\* event.
WrittenAfterDelivery ==
    /\ parser.out # <<>>
    /\ parser.currentEvent_ # NewEvent

\* The bytes of the response taken from the connection's buffer so far.
Taken == pos - Len(buf)

\* Where the chunks of a chunked body lie on the wire, the body starting
\* after `at` bytes: for each chunk the bytes before its size line, the bytes
\* before its payload, and its announced size.
RECURSIVE ChunkSpans(_, _)
ChunkSpans(chunks, at) ==
    IF chunks = <<>> THEN <<>>
    ELSE LET n == Len(Head(chunks))
             first == at + Len(NatToHex(n)) + 2
         IN  <<[line |-> at, first |-> first, size |-> n]>>
             \o ChunkSpans(Tail(chunks), first + n + 2)

\* The context is reading the body of a chunked response.
ReadingChunks ==
    /\ resp.framing = "chunked"
    /\ ctx.isChunked_
    /\ ctx.status_ = "ExpectBody"

\* C29: between parse calls on a chunked body, however the bytes were
\* fragmented, the bytes taken from the buffer stand before a size line with
\* a size line expected, or inside or at the end of the payload of a chunk
\* of announced size N with the remaining-byte counter at N minus the payload
\* bytes taken, or after the two-byte terminator with a size line expected:
\* no more than N bytes are taken as payload, and no size line is expected
\* before the terminator is consumed.
ChunkAccounting ==
    ReadingChunks =>
        \E i \in 1..Len(ChunkSpans(resp.chunks, HeaderEnd)) :
            LET s == ChunkSpans(resp.chunks, HeaderEnd)[i] IN
            \/ /\ Taken = s.line
               /\ ctx.expectChunkLength_
            \/ /\ s.first <= Taken
               /\ Taken <= s.first + s.size
               /\ ~ctx.expectChunkLength_
               /\ ctx.currentChunkLength_ = s.size - (Taken - s.first)
            \/ /\ Taken = s.first + s.size + 2
               /\ ctx.expectChunkLength_

\* A parse call ended in the middle of the payload of a chunk.
PausedMidChunk ==
    /\ ReadingChunks
    /\ \E i \in 1..Len(ChunkSpans(resp.chunks, HeaderEnd)) :
        LET s == ChunkSpans(resp.chunks, HeaderEnd)[i] IN
        /\ s.first < Taken
        /\ Taken < s.first + s.size
        /\ ctx.currentChunkLength_ = s.first + s.size - Taken

\* C30: in chunked mode no parse call ends with part of the payload of a
\* chunk taken from the buffer and given to the decoder: the payload of a
\* chunk is taken whole or not at all.
WholeChunksOnly ==
    ReadingChunks =>
        \A i \in 1..Len(ChunkSpans(resp.chunks, HeaderEnd)) :
            LET s == ChunkSpans(resp.chunks, HeaderEnd)[i] IN
            ~(s.first < Taken /\ Taken < s.first + s.size)

\* The bytes of the status line and its terminator.
StatusEnd == Len(resp.status) + 2

\* C31: once the status line "HTTP/1.1 200" and its terminator have been
\* given to parse, nobody having closed the context, parse has returned true
\* and the status code of the response is 200.
NoReasonAccepted ==
    (/\ resp.status = StatusLineNoReason
     /\ pos >= StatusEnd
     /\ lateParses = 0) =>
        /\ parseRet = "true"
        /\ ctx.responsePtr_ # <<>>
        /\ ctx.responsePtr_[1].statusCode = 200

\* C32: once the status line has been accepted and taken from the buffer,
\* no parse call treats another line as a status line: none is rejected as
\* one (parse returning false in ExpectHeaders) and none changes the version
\* or the status code of the response.
StatusLineOnce ==
    [][(/\ Taken >= StatusEnd
        /\ ctx.status_ = "ExpectHeaders"
        /\ pos' # pos) =>
            /\ parseRet' # "false"
            /\ ctx'.responsePtr_[1].version = ctx.responsePtr_[1].version
            /\ ctx'.responsePtr_[1].statusCode
                 = ctx.responsePtr_[1].statusCode]_vars

\* C33: on a fixed-length response whose callbacks call nothing back, the
\* event callback never receives more events than the first Content-Length
\* bytes of the body complete.
FixedLengthBounded ==
    (resp.framing = "length" /\ hook.on = "none") =>
        Len(Delivered(log)) <=
            Len(ParserParse(NewParser,
                            SubSeq(Concat(resp.chunks), 1,
                                   Min(resp.length, Len(Concat(resp.chunks))))
                           ).p.out)

\* The bytes of the response before its first chunk-size line of value zero,
\* and the bytes up to the end of that line.
ZeroLineStart ==
    IF resp.framing = "badsize" \/ resp.chunks = <<>> THEN HeaderEnd
    ELSE LET s == Last(ChunkSpans(resp.chunks, HeaderEnd))
         IN  s.first + s.size + 2

ZeroLineEnd ==
    ZeroLineStart + 2
    + (IF resp.framing = "badsize" THEN Len(BadSizeLine) ELSE 1)

\* The bytes up to the end of the first line terminator that lies after the
\* zero-size line within the first n bytes of the response; the end of the
\* zero-size line when there is none.
TerminatorAfterZero(n) ==
    LET ends == {i \in (ZeroLineEnd + 2)..n : SubSeq(wire, i - 1, i) = CRLF}
    IN  IF ends = {} THEN ZeroLineEnd
        ELSE CHOOSE i \in ends : \A j \in ends : i <= j

ParserIter(p, b) ==
    LET lf == Find(b, LF) IN
    IF lf = 0 THEN [p |-> p, buf |-> b, left |-> TRUE]
    ELSE [p |-> ProcessLine(p, ExtractLine(b, lf)),
          buf |-> Substr(b, lf + 1),
          left |-> FALSE]

\* The loop of SseEventParser::parse.
RECURSIVE ParserIterate(_, _)
ParserIterate(p, b) ==
    IF b = <<>> THEN [p |-> p, buf |-> b, stalled |-> FALSE]
    ELSE LET r == ParserIter(p, b) IN
         IF r.left THEN [p |-> r.p, buf |-> r.buf, stalled |-> FALSE]
         ELSE IF Len(r.buf) >= Len(b)
         THEN [p |-> r.p, buf |-> r.buf, stalled |-> TRUE]
         ELSE ParserIterate(r.p, r.buf)

\* eventParser_->parse(bytes), its loop taken one iteration at a time.
RunParserIterated(m, bytes, h) ==
    LET old == m.c.eventParser_[1]
        r   == ParserIterate(old, bytes)
        new == SubSeq(r.p.out, Len(old.out) + 1, Len(r.p.out))
    IN  [m |-> DeliverAll([m EXCEPT !.c.eventParser_ = <<r.p>>], new, h),
         rest |-> r.buf,
         stalled |-> r.stalled]

\* One iteration of the loop of parseHeaders.
HeadersIter(m, statusLineParsed, h) ==
    LET crlf == FindCRLF(m.buf) IN
    IF crlf = 0 THEN [m |-> m, slp |-> statusLineParsed, left |-> TRUE]
    ELSE IF ~statusLineParsed
    THEN LET r == ProcessResponseLine(m.c.responsePtr_[1],
                                      SubSeq(m.buf, 1, crlf - 1))
         IN  IF ~r.ok
             THEN [m |-> [m EXCEPT !.c.responsePtr_ = <<r.resp>>,
                                   !.ret = "false"],
                   slp |-> FALSE, left |-> TRUE]
             ELSE [m |-> [m EXCEPT !.c.responsePtr_ = <<r.resp>>,
                                   !.buf = Substr(@, crlf + 2)],
                   slp |-> TRUE, left |-> FALSE]
    ELSE IF crlf = 1
    THEN [m |-> EndOfHeaders([m EXCEPT !.buf = Substr(@, crlf + 2)], h),
          slp |-> TRUE, left |-> TRUE]
    ELSE [m |-> [m EXCEPT !.c.responsePtr_[1].headers =
                              HeaderLine(@, SubSeq(m.buf, 1, crlf - 1)),
                          !.buf = Substr(@, crlf + 2)],
          slp |-> TRUE, left |-> FALSE]

\* The loop of parseHeaders.
RECURSIVE HeadersIterate(_, _, _)
HeadersIterate(m, statusLineParsed, h) ==
    IF m.buf = <<>> THEN [m |-> m, stalled |-> FALSE]
    ELSE LET r == HeadersIter(m, statusLineParsed, h) IN
         IF r.left THEN [m |-> r.m, stalled |-> FALSE]
         ELSE IF Len(r.m.buf) >= Len(m.buf)
         THEN [m |-> r.m, stalled |-> TRUE]
         ELSE HeadersIterate(r.m, r.slp, h)

\* An iteration of the chunked loop that, at the end of a chunk with fewer
\* than two bytes buffered, expects the next chunk-size line instead of
\* leaving the loop.
ChunkedIterExpectsEarly(m, h) ==
    IF m.c.expectChunkLength_
    THEN LET crlf == FindCRLF(m.buf) IN
         IF crlf = 0 THEN [m |-> m, left |-> TRUE, stalled |-> FALSE]
         ELSE LET len == Strtol16(SubSeq(m.buf, 1, crlf - 1))
                  b1  == Substr(m.buf, crlf + 2)
                  crlf2 == FindCRLF(b1)
              IN  IF len = 0
                  THEN [m |-> SetStatus(
                                 [m EXCEPT !.c.currentChunkLength_ = 0,
                                           !.buf = IF crlf2 # 0
                                                   THEN Substr(b1, crlf2 + 2)
                                                   ELSE b1],
                                 "Closed"),
                        left |-> TRUE, stalled |-> FALSE]
                  ELSE [m |-> [m EXCEPT !.c.currentChunkLength_ = len,
                                        !.c.expectChunkLength_ = FALSE,
                                        !.buf = b1],
                        left |-> FALSE, stalled |-> FALSE]
    ELSE LET toRead == Min(m.c.currentChunkLength_, Len(m.buf))
             r  == RunParserIterated(m, SubSeq(m.buf, 1, toRead), h)
             m1 == IF toRead > 0
                   THEN [r.m EXCEPT
                            !.buf = Substr(m.buf, toRead + 1),
                            !.c.currentChunkLength_ = @ - toRead]
                   ELSE m
             st == toRead > 0 /\ r.stalled
         IN  IF m1.c.currentChunkLength_ = 0
             THEN IF Len(m1.buf) >= 2
                  THEN [m |-> [m1 EXCEPT !.buf = Substr(@, 3),
                                         !.c.expectChunkLength_ = TRUE],
                        left |-> FALSE, stalled |-> st]
                  ELSE [m |-> [m1 EXCEPT !.c.expectChunkLength_ = TRUE],
                        left |-> FALSE, stalled |-> st]
             ELSE [m |-> m1, left |-> FALSE, stalled |-> st]

\* One iteration of the loop of the chunked branch of parseBody; stalled
\* tells whether the decoder's loop stalled in it.
ChunkedIter(m, h) ==
    IF m.c.expectChunkLength_
    THEN LET crlf == FindCRLF(m.buf) IN
         IF crlf = 0 THEN [m |-> m, left |-> TRUE, stalled |-> FALSE]
         ELSE LET len == Strtol16(SubSeq(m.buf, 1, crlf - 1))
                  b1  == Substr(m.buf, crlf + 2)
                  crlf2 == FindCRLF(b1)
              IN  IF len = 0
                  THEN [m |-> SetStatus(
                                 [m EXCEPT !.c.currentChunkLength_ = 0,
                                           !.buf = IF crlf2 # 0
                                                   THEN Substr(b1, crlf2 + 2)
                                                   ELSE b1],
                                 "Closed"),
                        left |-> TRUE, stalled |-> FALSE]
                  ELSE [m |-> [m EXCEPT !.c.currentChunkLength_ = len,
                                        !.c.expectChunkLength_ = FALSE,
                                        !.buf = b1],
                        left |-> FALSE, stalled |-> FALSE]
    ELSE LET toRead == Min(m.c.currentChunkLength_, Len(m.buf))
             r  == RunParserIterated(m, SubSeq(m.buf, 1, toRead), h)
             m1 == IF toRead > 0
                   THEN [r.m EXCEPT
                            !.buf = Substr(m.buf, toRead + 1),
                            !.c.currentChunkLength_ = @ - toRead]
                   ELSE m
             st == toRead > 0 /\ r.stalled
         IN  IF m1.c.currentChunkLength_ = 0
             THEN IF Len(m1.buf) >= 2
                  THEN [m |-> [m1 EXCEPT !.buf = Substr(@, 3),
                                         !.c.expectChunkLength_ = TRUE],
                        left |-> FALSE, stalled |-> st]
                  ELSE [m |-> m1, left |-> TRUE, stalled |-> st]
             ELSE [m |-> m1, left |-> FALSE, stalled |-> st]

\* The loop of the chunked branch of parseBody.
RECURSIVE ChunkedIterate(_, _, _)
ChunkedIterate(m, h, stalled) ==
    IF m.buf = <<>> THEN [m |-> m, stalled |-> stalled]
    ELSE LET r == ChunkedIter(m, h) IN
         IF r.left THEN [m |-> r.m, stalled |-> stalled \/ r.stalled]
         ELSE IF Len(r.m.buf) >= Len(m.buf)
         THEN [m |-> r.m, stalled |-> TRUE]
         ELSE ChunkedIterate(r.m, h, stalled \/ r.stalled)

\* SseClientContext::parse, every loop taken one iteration at a time.
ParseIterate(m0, h) ==
    LET m == [m0 EXCEPT !.ret = "true"] IN
    IF m.c.status_ = "Closed"
    THEN [m |-> [m EXCEPT !.ret = "false"], stalled |-> FALSE]
    ELSE
    LET m1 == IF m.c.responsePtr_ = <<>>
              THEN [m EXCEPT !.c.responsePtr_ = <<NewResponse>>] ELSE m
        hd == IF m.c.status_ = "ExpectHeaders"
              THEN HeadersIterate(
                      m1, m1.c.responsePtr_[1].statusCode # kUnknown, h)
              ELSE [m |-> m, stalled |-> FALSE]
        b  == hd.m
    IN  IF hd.stalled \/ b.ret # "true" \/ b.c.status_ # "ExpectBody" THEN hd
        ELSE IF b.c.eventParser_ = <<>>
        THEN [m |-> [b EXCEPT !.ret = "false"], stalled |-> FALSE]
        ELSE IF b.c.isChunked_ THEN ChunkedIterate(b, h, FALSE)
        ELSE IF b.c.contentLength_ > 0
        THEN LET remaining == b.c.contentLength_ - b.c.bytesRead_
                 toRead == Min(remaining, Len(b.buf))
                 r  == RunParserIterated(b, b.buf, h)
                 b1 == IF toRead > 0
                       THEN [r.m EXCEPT !.buf = r.rest,
                                        !.c.bytesRead_ = @ + toRead]
                       ELSE b
             IN  [m |-> IF b1.c.bytesRead_ >= b1.c.contentLength_
                        THEN SetStatus(b1, "Closed") ELSE b1,
                  stalled |-> toRead > 0 /\ r.stalled]
        ELSE LET r == RunParserIterated(b, b.buf, h) IN
             [m |-> [r.m EXCEPT !.buf = r.rest], stalled |-> r.stalled]

\* C35: in every parse call no loop of parseHeaders, of parseBody (chunked,
\* fixed-length or unbounded) or of the decoder stalls: each iteration takes
\* at least one byte from the buffer or leaves its loop; and the iterations
\* end where the call ends.
EveryIterationConsumes ==
    [][pos' # pos =>
        LET r == ParseIterate(
                    [Machine EXCEPT !.buf = @ \o SubSeq(wire, pos + 1, pos')],
                    hook)
        IN  /\ ~r.stalled
            /\ r.m = [c |-> ctx', buf |-> buf', log |-> log',
                      hist |-> hist', ret |-> parseRet']]_vars

\* A parse call has ended at a completed chunk with one of its two
\* terminator bytes in the buffer.
PausedInTerminator ==
    /\ ReadingChunks
    /\ ~ctx.expectChunkLength_
    /\ ctx.currentChunkLength_ = 0
    /\ Len(buf) = 1
    /\ parseRet = "true"

====
